---- MODULE Spec2Model ----
(***************************************************************************)
(* A model of the o1js matrix engine (src/src/matrix_ops.ts): the Matrix   *)
(* class over a prime field, its element-wise operations, multiplication,  *)
(* transpose, minor extraction, determinant, adjoint and inverse.          *)
(*                                                                         *)
(* Field elements are the integers 0..P-1 of a prime field.  A JavaScript  *)
(* array is a sequence; index k of the array is element k+1 of the         *)
(* sequence.  Reading an array outside its length gives Undef, and any     *)
(* field operation that is handed Undef, or that divides by zero, throws:  *)
(* its value is Thrown, which every later operation passes on.  A failed   *)
(* assertion (Provable.assertEqual, assertNotEquals) or a thrown Error     *)
(* ends the operation: the helper's result has ok = FALSE and names the    *)
(* failure in err.                                                         *)
(***************************************************************************)
EXTENDS Integers, Sequences, FiniteSets, TLC

VARIABLES pc, args, this, other, scalar, op, out, out2

vars == <<pc, args, this, other, scalar, op, out, out2>>

-----------------------------------------------------------------------------
(* Bounds of the model.                                                    *)

\* dimensions of the operand pairs of the element-wise operations and of mul,
\* and of the shapes handed to the constructor
MaxDim == 2
\* size of the square matrices handed to determinant, adjoint and inverse
MaxN == 3
\* length of the value arrays handed to the constructor
MaxLen == 4
\* the values handed to the constructor alone are naturals of sum <= MaxSum
MaxSum == 2
\* an operand pair whose largest dimension is d has cell values of sum at
\* most MaxPairWeight - 2 * d
MaxPairWeight == 7
\* a square matrix of size n has cell values of sum at most MaxWeight - 2 * n
MaxWeight == 10
\* a pair of quantized operands whose largest dimension is d has cell values
\* of sum at most MaxQuantWeight - 2 * d
MaxQuantWeight == 5
\* the quantized values handed to the scalar quantized operations are 0..MaxQ
MaxQ == 2

-----------------------------------------------------------------------------
(* The field.                                                              *)

\* order of the prime field Field (a small prime stands for o1js's modulus)
P == 1009

Undef == -1
Thrown == -2

Field(x) == x % P

Bad(x) == x < 0

FAdd(x, y) == IF Bad(x) \/ Bad(y) THEN Thrown ELSE (x + y) % P

FSub(x, y) == IF Bad(x) \/ Bad(y) THEN Thrown ELSE (x - y) % P

FMul(x, y) == IF Bad(x) \/ Bad(y) THEN Thrown ELSE (x * y) % P

RECURSIVE FPow(_, _)
FPow(x, e) ==
    IF e = 0 THEN 1
    ELSE LET h == FPow(x, e \div 2)
             sq == (h * h) % P
         IN  IF e % 2 = 1 THEN (sq * x) % P ELSE sq

\* x.inv(): the inverse of x, x^(P-2); inverting 0 throws
FInv(x) == IF Bad(x) \/ x = 0 THEN Thrown ELSE FPow(x, P - 2)

\* x.div(y): x times the inverse of y
FDiv(x, y) == FMul(x, FInv(y))

\* Number(x) of a field element: its canonical representative
Number(x) == x

-----------------------------------------------------------------------------
(* JavaScript arrays.                                                      *)

\* the array whose element k is f[k + 1], as an explicit sequence
Array(f) == f \o <<>>

\* arr[k]
At(arr, k) == IF k >= 0 /\ k < Len(arr) THEN arr[k + 1] ELSE Undef

\* new Array(n).fill(v)
Fill(n, v) == Array([k \in 1..n |-> v])

\* arr[k] = v; a write past the end lengthens the array, leaving holes
ArrSet(arr, k, v) ==
    IF k < 0 THEN arr
    ELSE IF k < Len(arr) THEN Array([arr EXCEPT ![k + 1] = v])
    ELSE Append(arr \o Fill(k - Len(arr), Undef), v)

HasThrown(arr) == \E k \in 1..Len(arr) : arr[k] = Thrown

RECURSIVE SumSeq(_)
SumSeq(q) == IF q = <<>> THEN 0 ELSE Head(q) + SumSeq(Tail(q))

-----------------------------------------------------------------------------
(* Results of helpers and operations.                                      *)

NoValues == <<>>

NoMatrix == [values |-> <<>>, shape |-> <<0, 0>>, zero_point |-> 0, scale |-> 0]

\* a helper that returns an array
OkValues(v) == [ok |-> TRUE, err |-> "none", values |-> v]
FailValues(e) == [ok |-> FALSE, err |-> e, values |-> NoValues]

\* a helper that returns a field element
OkField(f) == [ok |-> TRUE, err |-> "none", f |-> f]
FailField(e) == [ok |-> FALSE, err |-> e, f |-> Thrown]

\* what a public operation of Matrix delivers
\* what a public operation of Matrix delivers; muls and divs count the
\* Field.mul calls of mul and the Field.div calls of inverse made on the way
OkMatrix(m) ==
    [ok |-> TRUE, err |-> "none", kind |-> "matrix", m |-> m, f |-> 0,
     muls |-> 0, divs |-> 0]
OkScalar(f) ==
    [ok |-> TRUE, err |-> "none", kind |-> "field", m |-> NoMatrix, f |-> f,
     muls |-> 0, divs |-> 0]
Failure(e) ==
    [ok |-> FALSE, err |-> e, kind |-> "none", m |-> NoMatrix, f |-> 0,
     muls |-> 0, divs |-> 0]

-----------------------------------------------------------------------------
(* class Matrix: the constructor.                                          *)

ConstructionError == "Values length does not match the shape"

\* a constructor that refuses only too few values
Matrix_accepts_surplus(values, shape, zero_point, scale) ==
    IF Len(values) < Number(shape[1]) * Number(shape[2])
    THEN Failure(ConstructionError)
    ELSE OkMatrix([values |-> values, shape |-> shape,
                   zero_point |-> zero_point, scale |-> scale])

\* new Matrix(values, shape, zero_point, scale)
Matrix(values, shape, zero_point, scale) ==
    IF Len(values) # Number(shape[1]) * Number(shape[2])
    THEN Failure(ConstructionError)
    ELSE OkMatrix([values |-> values, shape |-> shape,
                   zero_point |-> zero_point, scale |-> scale])

-----------------------------------------------------------------------------
(* Helper functions on value arrays.                                       *)

\* Provable.assertEqual(Field, x, y), x.equals(y).assertEquals(true)
AssertEqual(x, y) == x = y

add(matrix1_val, matrix2_val) ==
    Array([i \in 1..Len(matrix1_val) |-> FAdd(matrix1_val[i], At(matrix2_val, i - 1))])

sub(matrix1_val, matrix2_val) ==
    Array([i \in 1..Len(matrix1_val) |-> FSub(matrix1_val[i], At(matrix2_val, i - 1))])

hadamard_product(matrix1, matrix2) ==
    Array([i \in 1..Len(matrix1) |-> FMul(matrix1[i], At(matrix2, i - 1))])

scalar_mul(matrix, s) ==
    Array([i \in 1..Len(matrix) |-> FMul(s, matrix[i])])

\* a scalar_div that divides the scalar by the cell
scalar_div_swapped(matrix, s) ==
    IF s = 0 THEN FailValues("assertNotEquals")
    ELSE OkValues(Array([i \in 1..Len(matrix) |-> FDiv(s, matrix[i])]))

\* scalar.assertNotEquals(Field(0)) comes before the first division
scalar_div(matrix, s) ==
    IF s = 0 THEN FailValues("assertNotEquals")
    ELSE OkValues(Array([i \in 1..Len(matrix) |-> FDiv(matrix[i], s)]))

\* a k loop that skips the product when the left entry is zero
RECURSIVE mul_dot_skips_zero(_, _, _, _, _, _, _, _)
mul_dot_skips_zero(matrix1, matrix2, cols1, cols2, i, j, k, acc) ==
    IF k >= cols1 THEN acc
    ELSE mul_dot_skips_zero(matrix1, matrix2, cols1, cols2, i, j, k + 1,
             IF At(matrix1, i * cols1 + k) = Field(0) THEN acc
             ELSE [element |-> FAdd(acc.element,
                                    FMul(At(matrix1, i * cols1 + k),
                                         At(matrix2, k * cols2 + j))),
                   muls |-> acc.muls + 1])

\* the k loop of mul: the dot product of row i and column j, one Field.mul
\* and one Field.add per k
RECURSIVE mul_dot(_, _, _, _, _, _, _, _)
mul_dot(matrix1, matrix2, cols1, cols2, i, j, k, acc) ==
    IF k >= cols1 THEN acc
    ELSE mul_dot(matrix1, matrix2, cols1, cols2, i, j, k + 1,
                 [element |-> FAdd(acc.element,
                                   FMul(At(matrix1, i * cols1 + k),
                                        At(matrix2, k * cols2 + j))),
                  muls |-> acc.muls + 1])
\* a mul without the assertion on the inner dimensions
mul_unchecked(matrix1, matrix2, matrix1_shape, matrix2_shape) ==
    LET rows1 == Number(matrix1_shape[1])
        cols1 == Number(matrix1_shape[2])
        cols2 == Number(matrix2_shape[2])
        cell == Array([t \in 1..(rows1 * cols2) |->
                   mul_dot(matrix1, matrix2, cols1, cols2,
                           (t - 1) \div cols2, (t - 1) % cols2, 0,
                           [element |-> Field(0), muls |-> 0])])
    IN  [ok |-> TRUE, err |-> "none",
         values |-> Array([t \in 1..(rows1 * cols2) |-> cell[t].element]),
         muls |-> SumSeq([t \in 1..(rows1 * cols2) |-> cell[t].muls])]

\* mul: values of the product, and the number of Field.mul calls made
mul(matrix1, matrix2, matrix1_shape, matrix2_shape) ==
    IF ~AssertEqual(matrix1_shape[2], matrix2_shape[1])
    THEN [ok |-> FALSE, err |-> "assertEqual", values |-> NoValues, muls |-> 0]
    ELSE LET rows1 == Number(matrix1_shape[1])
             cols1 == Number(matrix1_shape[2])
             cols2 == Number(matrix2_shape[2])
             cell == Array([t \in 1..(rows1 * cols2) |->
                        mul_dot(matrix1, matrix2, cols1, cols2,
                                (t - 1) \div cols2, (t - 1) % cols2, 0,
                                [element |-> Field(0), muls |-> 0])])
         IN  [ok |-> TRUE, err |-> "none",
              values |-> Array([t \in 1..(rows1 * cols2) |-> cell[t].element]),
              muls |-> SumSeq([t \in 1..(rows1 * cols2) |-> cell[t].muls])]

\* a transpose that strides the result by cols instead of rows
RECURSIVE transpose_loop_cols_stride(_, _, _, _, _)
transpose_loop_cols_stride(matrix_values, rows, cols, t, acc) ==
    IF t >= rows * cols THEN acc
    ELSE LET i == t \div cols
             j == t % cols
         IN  transpose_loop_cols_stride(matrix_values, rows, cols, t + 1,
                 [result |-> ArrSet(acc.result, j * cols + i,
                                    At(matrix_values, i * cols + j)),
                  writes |-> Append(acc.writes, j * cols + i)])

\* the two loops of transpose, step t = i * cols + j: acc.result is the array
\* being filled, acc.writes the indices written so far
RECURSIVE transpose_loop(_, _, _, _, _)
transpose_loop(matrix_values, rows, cols, t, acc) ==
    IF t >= rows * cols THEN acc
    ELSE LET i == t \div cols
             j == t % cols
         IN  transpose_loop(matrix_values, rows, cols, t + 1,
                 [result |-> ArrSet(acc.result, j * rows + i,
                                    At(matrix_values, i * cols + j)),
                  writes |-> Append(acc.writes, j * rows + i)])

transpose_run(matrix_values, shape) ==
    transpose_loop(matrix_values, Number(shape[1]), Number(shape[2]), 0,
                   [result |-> Fill(Len(matrix_values), Field(0)), writes |-> <<>>])

transpose(matrix_values, shape) == transpose_run(matrix_values, shape).result

\* the j loop of get_minor for a row i that is kept
RECURSIVE get_minor_cols(_, _, _, _, _, _, _, _)
get_minor_cols(matrix, col, cols, i, r, j, c, minor) ==
    IF j >= cols THEN minor
    ELSE IF j # Number(col)
         THEN get_minor_cols(matrix, col, cols, i, r, j + 1, c + 1,
                             ArrSet(minor, r * (cols - 1) + (c + 1),
                                    At(matrix, i * cols + j)))
         ELSE get_minor_cols(matrix, col, cols, i, r, j + 1, c, minor)

\* the i loop of get_minor
RECURSIVE get_minor_rows(_, _, _, _, _, _, _, _)
get_minor_rows(matrix, row, col, rows, cols, i, r, minor) ==
    IF i >= rows THEN minor
    ELSE IF i # Number(row)
         THEN get_minor_rows(matrix, row, col, rows, cols, i + 1, r + 1,
                             get_minor_cols(matrix, col, cols, i, r + 1, 0, -1, minor))
         ELSE get_minor_rows(matrix, row, col, rows, cols, i + 1, r, minor)

\* get_minor: the cells of matrix outside row and col, written into minor;
\* each witnessed copy is asserted equal to the cell it was read from
get_minor(matrix, row, col, shape, minor) ==
    get_minor_rows(matrix, row, col, Number(shape[1]), Number(shape[2]), 0, -1, minor)

\* a sign that never alternates
sign_loop_constant(n, sign) == sign

\* sign = sign.mul(Field(-1)), n times over
RECURSIVE sign_loop(_, _)
sign_loop(n, sign) ==
    IF n <= 0 THEN sign ELSE sign_loop(n - 1, FMul(sign, Field(-1)))

RECURSIVE determinant_ad_plus_bc(_, _)
RECURSIVE determinant(_, _)
RECURSIVE determinant_loop(_, _, _, _)

\* the first-row expansion of determinant, from column i on; acc is the
\* running [ok, err, f = det] and the sign of column i is (-1)^i
determinant_loop(matrix, shape, i, acc) ==
    IF i >= Number(shape[1]) \/ ~acc.ok THEN acc
    ELSE LET n == Number(shape[1])
             minor == get_minor(matrix, Field(0), Field(i), shape,
                                Fill((n - i) * (n - i), Field(0)))
             d == determinant(minor, <<FSub(shape[1], Field(1)),
                                       FSub(shape[2], Field(1))>>)
             sign == sign_loop(i, Field(1))
         IN  determinant_loop(matrix, shape, i + 1,
                 IF d.ok
                 THEN OkField(FAdd(acc.f, FMul(FMul(sign, At(matrix, i)), d.f)))
                 ELSE d)

\* a determinant whose 2 x 2 shortcut adds the two products
determinant_ad_plus_bc(matrix, shape) ==
    IF ~AssertEqual(shape[1], shape[2]) THEN FailField("assertEqual")
    ELSE IF Number(shape[1]) = 2
         THEN OkField(FAdd(FMul(At(matrix, 0), At(matrix, 3)),
                           FMul(At(matrix, 1), At(matrix, 2))))
    ELSE IF Number(shape[1]) = 1
         THEN OkField(At(matrix, 0))
    ELSE determinant_loop(matrix, shape, 0, OkField(Field(0)))

determinant(matrix, shape) ==
    IF ~AssertEqual(shape[1], shape[2]) THEN FailField("assertEqual")
    ELSE IF Number(shape[1]) = 2
         THEN OkField(FSub(FMul(At(matrix, 0), At(matrix, 3)),
                           FMul(At(matrix, 1), At(matrix, 2))))
    ELSE IF Number(shape[1]) = 1
         THEN OkField(At(matrix, 0))
    ELSE determinant_loop(matrix, shape, 0, OkField(Field(0)))

\* the cofactor of cell (i, j): sign (-1)^(i+j) times the determinant of the
\* minor, which get_minor writes into a zero-filled array as long as matrix
cofactor(matrix, shape, i, j) ==
    LET minor == get_minor(matrix, Field(i), Field(j), shape,
                           Fill(Len(matrix), Field(0)))
        d == determinant(minor, <<FSub(shape[1], Field(1)),
                                  FSub(shape[2], Field(1))>>)
    IN  IF d.ok THEN OkField(FMul(sign_loop(i + j, Field(1)), d.f)) ELSE d

adjoint(matrix, shape) ==
    IF ~AssertEqual(shape[1], shape[2]) THEN FailValues("assertEqual")
    ELSE LET rows == Number(shape[1])
             cols == Number(shape[2])
             cof == Array([t \in 1..(rows * cols) |->
                       cofactor(matrix, shape, (t - 1) \div cols, (t - 1) % cols)])
             cells == Array([t \in 1..Len(matrix) |->
                         IF t <= rows * cols THEN cof[t].f ELSE Field(0)])
         IN  IF \E t \in 1..(rows * cols) : ~cof[t].ok
             THEN FailValues("assertEqual")
             ELSE OkValues(transpose(cells, shape))

\* an inverse without the non-zero assertion on the determinant
inverse_unguarded(matrix, shape) ==
    IF ~AssertEqual(shape[1], shape[2])
    THEN [ok |-> FALSE, err |-> "assertEqual", values |-> NoValues, divs |-> 0]
    ELSE LET det == determinant(matrix, shape)
         IN  IF ~det.ok
             THEN [ok |-> FALSE, err |-> det.err, values |-> NoValues, divs |-> 0]
             ELSE LET ad_joint == adjoint(matrix, shape)
                      rows == Number(shape[1])
                      cols == Number(shape[2])
                  IN  IF ~ad_joint.ok
                      THEN [ok |-> FALSE, err |-> ad_joint.err,
                            values |-> NoValues, divs |-> 0]
                      ELSE [ok |-> TRUE, err |-> "none",
                            values |-> Array([t \in 1..Len(matrix) |->
                                          IF t <= rows * cols
                                          THEN FDiv(At(ad_joint.values, t - 1), det.f)
                                          ELSE Field(0)]),
                            divs |-> rows * cols]

\* inverse: the values, and the number of Field.div calls made
inverse(matrix, shape) ==
    IF ~AssertEqual(shape[1], shape[2])
    THEN [ok |-> FALSE, err |-> "assertEqual", values |-> NoValues, divs |-> 0]
    ELSE LET det == determinant(matrix, shape)
         IN  IF ~det.ok
             THEN [ok |-> FALSE, err |-> det.err, values |-> NoValues, divs |-> 0]
             ELSE IF det.f = Field(0)
             THEN [ok |-> FALSE, err |-> "assertNotEquals", values |-> NoValues,
                   divs |-> 0]
             ELSE LET ad_joint == adjoint(matrix, shape)
                      rows == Number(shape[1])
                      cols == Number(shape[2])
                  IN  IF ~ad_joint.ok
                      THEN [ok |-> FALSE, err |-> ad_joint.err,
                            values |-> NoValues, divs |-> 0]
                      ELSE [ok |-> TRUE, err |-> "none",
                            values |-> Array([t \in 1..Len(matrix) |->
                                          IF t <= rows * cols
                                          THEN FDiv(At(ad_joint.values, t - 1), det.f)
                                          ELSE Field(0)]),
                            divs |-> rows * cols]
\* The steps a call makes, in order: "witness", "assertEqual" and
\* "assertNotEquals" for the constraints it appends, "add", "sub", "mul" and
\* "div" for its field arithmetic. A call that stops at a failed assertion
\* makes no step after it.

\* the steps of get_minor, iteration t = i * cols + j of its two loops: a
\* witness and an equality assertion for every cell it keeps
RECURSIVE get_minor_steps(_, _, _, _, _, _)
get_minor_steps(matrix, row, col, rows, cols, t) ==
    IF t >= rows * cols THEN <<>>
    ELSE (IF (t \div cols) # Number(row) /\ (t % cols) # Number(col)
          THEN <<"witness", "assertEqual">> ELSE <<>>)
         \o get_minor_steps(matrix, row, col, rows, cols, t + 1)

RECURSIVE determinant_steps(_, _)
RECURSIVE determinant_loop_steps(_, _, _)

\* the steps of the expansion loop of determinant from column i on
determinant_loop_steps(matrix, shape, i) ==
    IF i >= Number(shape[1]) THEN <<>>
    ELSE get_minor_steps(matrix, Field(0), Field(i), Number(shape[1]),
                         Number(shape[2]), 0)
         \o <<"mul">>
         \o determinant_steps(
                get_minor(matrix, Field(0), Field(i), shape,
                          Fill((Number(shape[1]) - i) * (Number(shape[1]) - i),
                               Field(0))),
                <<FSub(shape[1], Field(1)), FSub(shape[2], Field(1))>>)
         \o <<"mul", "add", "mul">>
         \o determinant_loop_steps(matrix, shape, i + 1)

\* the steps of determinant
determinant_steps(matrix, shape) ==
    <<"assertEqual">>
    \o (IF ~AssertEqual(shape[1], shape[2]) THEN <<>>
        ELSE IF Number(shape[1]) = 2 THEN <<"mul", "mul", "sub">>
        ELSE IF Number(shape[1]) = 1 THEN <<>>
        ELSE determinant_loop_steps(matrix, shape, 0))

\* the steps of adjoint for cell t = i * cols + j and those after it: the
\* minor, i + j sign changes, the determinant of the minor, the cofactor
RECURSIVE adjoint_loop_steps(_, _, _)
adjoint_loop_steps(matrix, shape, t) ==
    IF t >= Number(shape[1]) * Number(shape[2]) THEN <<>>
    ELSE get_minor_steps(matrix, Field(t \div Number(shape[2])),
                         Field(t % Number(shape[2])), Number(shape[1]),
                         Number(shape[2]), 0)
         \o [k \in 1..((t \div Number(shape[2])) + (t % Number(shape[2]))) |-> "mul"]
         \o determinant_steps(
                get_minor(matrix, Field(t \div Number(shape[2])),
                          Field(t % Number(shape[2])), shape,
                          Fill(Len(matrix), Field(0))),
                <<FSub(shape[1], Field(1)), FSub(shape[2], Field(1))>>)
         \o <<"mul">>
         \o adjoint_loop_steps(matrix, shape, t + 1)

\* the steps of adjoint; its transpose makes none
adjoint_steps(matrix, shape) ==
    <<"assertEqual">>
    \o (IF ~AssertEqual(shape[1], shape[2]) THEN <<>>
        ELSE adjoint_loop_steps(matrix, shape, 0))

\* the steps of inverse: a zero determinant stops it at assertNotEquals
inverse_steps(matrix, shape) ==
    <<"assertEqual">>
    \o (IF ~AssertEqual(shape[1], shape[2]) THEN <<>>
        ELSE determinant_steps(matrix, shape)
             \o <<"assertNotEquals">>
             \o (IF determinant(matrix, shape).f = Field(0) THEN <<>>
                 ELSE adjoint_steps(matrix, shape)
                      \o [k \in 1..(Number(shape[1]) * Number(shape[2])) |-> "div"]))

\* the steps of a dot product that skips the terms with a zero factor
mul_dot_steps_skipping_zero(matrix1, matrix2, cols1, cols2, i, j) ==
    [k \in 1..(2 * Cardinality({k \in 0..(cols1 - 1) :
                                   /\ At(matrix1, i * cols1 + k) # Field(0)
                                   /\ At(matrix2, k * cols2 + j) # Field(0)})) |->
        IF k % 2 = 1 THEN "mul" ELSE "add"]

\* the steps of the k loop of mul: a multiplication and an addition per k
mul_dot_steps(matrix1, matrix2, cols1, cols2, i, j) ==
    [k \in 1..(2 * cols1) |-> IF k % 2 = 1 THEN "mul" ELSE "add"]

\* the steps of mul from cell t = i * cols2 + j on
RECURSIVE mul_loop_steps(_, _, _, _, _)
mul_loop_steps(matrix1, matrix2, matrix1_shape, matrix2_shape, t) ==
    IF t >= Number(matrix1_shape[1]) * Number(matrix2_shape[2]) THEN <<>>
    ELSE mul_dot_steps(matrix1, matrix2, Number(matrix1_shape[2]),
                       Number(matrix2_shape[2]), t \div Number(matrix2_shape[2]),
                       t % Number(matrix2_shape[2]))
         \o mul_loop_steps(matrix1, matrix2, matrix1_shape, matrix2_shape, t + 1)

\* the steps of mul
mul_steps(matrix1, matrix2, matrix1_shape, matrix2_shape) ==
    <<"assertEqual">>
    \o (IF ~AssertEqual(matrix1_shape[2], matrix2_shape[1]) THEN <<>>
        ELSE mul_loop_steps(matrix1, matrix2, matrix1_shape, matrix2_shape, 0))

constr_matrix_config(matrix, o) ==
    /\ AssertEqual(matrix.shape[1], o.shape[1])
    /\ AssertEqual(matrix.shape[2], o.shape[2])
    /\ AssertEqual(matrix.zero_point, o.zero_point)
    /\ AssertEqual(matrix.scale, o.scale)

-----------------------------------------------------------------------------
(* class Matrix: the public operations.  self is the receiver.             *)

\* return new Matrix(values, ...): an exception thrown while the values were
\* computed has already ended the operation
Deliver(values, shape, zero_point, scale) ==
    IF HasThrown(values) THEN Failure("throw")
    ELSE Matrix(values, shape, zero_point, scale)

Matrix_add(self, o) ==
    IF ~constr_matrix_config(self, o) THEN Failure("assertEquals")
    ELSE IF ~AssertEqual(o.zero_point, Field(0)) THEN Failure("assertEqual")
    ELSE IF ~AssertEqual(o.scale, Field(1)) THEN Failure("assertEqual")
    ELSE Deliver(add(self.values, o.values), self.shape, self.zero_point, self.scale)

Matrix_sub(self, o) ==
    IF ~constr_matrix_config(self, o) THEN Failure("assertEquals")
    ELSE IF ~AssertEqual(o.zero_point, Field(0)) THEN Failure("assertEqual")
    ELSE IF ~AssertEqual(o.scale, Field(1)) THEN Failure("assertEqual")
    ELSE Deliver(sub(self.values, o.values), self.shape, self.zero_point, self.scale)

Matrix_hadamard_product(self, o) ==
    IF ~constr_matrix_config(self, o) THEN Failure("assertEquals")
    ELSE IF ~AssertEqual(o.zero_point, Field(0)) THEN Failure("assertEqual")
    ELSE IF ~AssertEqual(o.scale, Field(1)) THEN Failure("assertEqual")
    ELSE Deliver(hadamard_product(self.values, o.values),
                 self.shape, self.zero_point, self.scale)

Matrix_mul(self, o) ==
    IF ~AssertEqual(o.zero_point, Field(0)) THEN Failure("assertEqual")
    ELSE IF ~AssertEqual(o.scale, Field(1)) THEN Failure("assertEqual")
    ELSE IF ~AssertEqual(self.zero_point, o.zero_point) THEN Failure("assertEqual")
    ELSE IF ~AssertEqual(self.scale, o.scale) THEN Failure("assertEqual")
    ELSE LET r == mul(self.values, o.values, self.shape, o.shape)
         IN  IF ~r.ok THEN Failure(r.err)
             ELSE [Deliver(r.values, <<self.shape[1], o.shape[2]>>,
                           self.zero_point, self.scale) EXCEPT !.muls = r.muls]
\* a scalar_mul without the assertions on the receiver's quantization
Matrix_scalar_mul_any_config(self, s) ==
    Deliver(scalar_mul(self.values, s), self.shape, self.zero_point, self.scale)

Matrix_scalar_mul(self, s) ==
    IF ~AssertEqual(self.zero_point, Field(0)) THEN Failure("assertEqual")
    ELSE IF ~AssertEqual(self.scale, Field(1)) THEN Failure("assertEqual")
    ELSE Deliver(scalar_mul(self.values, s), self.shape, self.zero_point, self.scale)

Matrix_scalar_div(self, s) ==
    IF ~AssertEqual(self.zero_point, Field(0)) THEN Failure("assertEqual")
    ELSE IF ~AssertEqual(self.scale, Field(1)) THEN Failure("assertEqual")
    ELSE LET r == scalar_div(self.values, s)
         IN  IF ~r.ok THEN Failure(r.err)
             ELSE Deliver(r.values, self.shape, self.zero_point, self.scale)

\* a transpose that keeps the receiver's shape
Matrix_transpose_keeps_shape(self) ==
    Deliver(transpose(self.values, self.shape), self.shape,
            self.zero_point, self.scale)

Matrix_transpose(self) ==
    Deliver(transpose(self.values, self.shape), <<self.shape[2], self.shape[1]>>,
            self.zero_point, self.scale)

Matrix_determinant(self) ==
    IF ~AssertEqual(self.zero_point, Field(0)) THEN Failure("assertEqual")
    ELSE IF ~AssertEqual(self.scale, Field(1)) THEN Failure("assertEqual")
    ELSE LET d == determinant(self.values, self.shape)
         IN  IF ~d.ok THEN Failure(d.err)
             ELSE IF Bad(d.f) THEN Failure("throw")
             ELSE OkScalar(d.f)

Matrix_adjoint(self) ==
    IF ~AssertEqual(self.zero_point, Field(0)) THEN Failure("assertEqual")
    ELSE IF ~AssertEqual(self.scale, Field(1)) THEN Failure("assertEqual")
    ELSE LET r == adjoint(self.values, self.shape)
         IN  IF ~r.ok THEN Failure(r.err)
             ELSE Deliver(r.values, self.shape, self.zero_point, self.scale)

Matrix_inverse(self) ==
    IF ~AssertEqual(self.zero_point, Field(0)) THEN Failure("assertEqual")
    ELSE IF ~AssertEqual(self.scale, Field(1)) THEN Failure("assertEqual")
    ELSE LET r == inverse(self.values, self.shape)
         IN  IF ~r.ok THEN [Failure(r.err) EXCEPT !.divs = r.divs]
             ELSE [Deliver(r.values, self.shape, self.zero_point, self.scale)
                       EXCEPT !.divs = r.divs]

-----------------------------------------------------------------------------
(* Quantized arithmetic (quantize.ts).  A quantized value q with zero      *)
(* point z and scale reciprocal s stands for (q - z) / s.                   *)

\* let x = v; F(x): the value is computed once, where it is declared
Bind(v, F(_)) == F(v)
\* a range check of 16 bits
rangeCheck16(x) == x \in 0..65535

\* Gadgets.rangeCheck8(x): x fits in 8 bits
RangeCheck8(x) == x \in 0..255

\* x.greaterThan(y): a Bool object holding x > y
greaterThan(x, y) == [bool |-> x > y]

\* if (b) on a Bool object: an object is truthy whatever it holds
JsTruthy(b) == TRUE
\* a mul_quant that divides by the output scale instead of multiplying by it
mul_quant_divides_by_out_scale(x_quantized, x_zero_point, x_scale_reciprocal, y_quantized, y_zero_point, y_scale_reciprocal, z_zero_point, z_scale_reciprocal) ==
    FAdd(FMul(FMul(FDiv(Field(1),
                        FMul(FMul(x_scale_reciprocal, y_scale_reciprocal),
                             z_scale_reciprocal)),
                   FSub(x_quantized, x_zero_point)),
              FSub(y_quantized, y_zero_point)),
         z_zero_point)

mul_quant(x_quantized, x_zero_point, x_scale_reciprocal, y_quantized, y_zero_point, y_scale_reciprocal, z_zero_point, z_scale_reciprocal) ==
    FAdd(FMul(FMul(FDiv(Field(1),
                        FDiv(FMul(x_scale_reciprocal, y_scale_reciprocal),
                             z_scale_reciprocal)),
                   FSub(x_quantized, x_zero_point)),
              FSub(y_quantized, y_zero_point)),
         z_zero_point)

div_quant(x_quantized, x_zero_point, x_scale_reciprocal, y_quantized, y_zero_point, y_scale_reciprocal, z_zero_point, z_scale_reciprocal) ==
    FAdd(FDiv(FMul(FDiv(Field(1),
                        FDiv(FDiv(x_scale_reciprocal, y_scale_reciprocal),
                             z_scale_reciprocal)),
                   FSub(x_quantized, x_zero_point)),
              FSub(y_quantized, y_zero_point)),
         z_zero_point)

\* the common multiplier of add_quant and sub_quant
multiplier_x_y(x_scale_reciprocal, y_scale_reciprocal) ==
    LET x_scale_100 == FMul(x_scale_reciprocal, Field(100))
        y_scale_100 == FMul(y_scale_reciprocal, Field(100))
        is_x_scale_gr == greaterThan(x_scale_100, y_scale_100)
    IN  IF ~RangeCheck8(x_scale_100) \/ ~RangeCheck8(y_scale_100) THEN Thrown
        ELSE IF JsTruthy(is_x_scale_gr) THEN FMul(y_scale_reciprocal, Field(2))
        ELSE FMul(x_scale_reciprocal, Field(2))
\* an add_quant whose operand multipliers are not divided by the common one
add_quant_aligned_unscaled(m_x_y, x_quantized, x_zero_point, x_scale_reciprocal, y_quantized, y_zero_point, y_scale_reciprocal, z_zero_point, z_scale_reciprocal) ==
    LET multiplier_x == FDiv(Field(1), x_scale_reciprocal)
        multiplier_y == FDiv(Field(1), y_scale_reciprocal)
        multiplier_x_y_z == FMul(m_x_y, z_scale_reciprocal)
    IN  FAdd(FMul(multiplier_x_y_z,
                  FAdd(FMul(multiplier_x, FSub(x_quantized, x_zero_point)),
                       FMul(multiplier_y, FSub(y_quantized, y_zero_point)))),
             z_zero_point)

\* add_quant once the common multiplier m_x_y is chosen
add_quant_aligned(m_x_y, x_quantized, x_zero_point, x_scale_reciprocal, y_quantized, y_zero_point, y_scale_reciprocal, z_zero_point, z_scale_reciprocal) ==
    LET multiplier_x == FDiv(FDiv(Field(1), x_scale_reciprocal), m_x_y)
        multiplier_y == FDiv(FDiv(Field(1), y_scale_reciprocal), m_x_y)
        multiplier_x_y_z == FMul(m_x_y, z_scale_reciprocal)
    IN  FAdd(FMul(multiplier_x_y_z,
                  FAdd(FMul(multiplier_x, FSub(x_quantized, x_zero_point)),
                       FMul(multiplier_y, FSub(y_quantized, y_zero_point)))),
             z_zero_point)

\* sub_quant once the common multiplier m_x_y is chosen
sub_quant_aligned(m_x_y, x_quantized, x_zero_point, x_scale_reciprocal, y_quantized, y_zero_point, y_scale_reciprocal, z_zero_point, z_scale_reciprocal) ==
    LET multiplier_x == FDiv(FDiv(Field(1), x_scale_reciprocal), m_x_y)
        multiplier_y == FDiv(FDiv(Field(1), y_scale_reciprocal), m_x_y)
        multiplier_x_y_z == FMul(m_x_y, z_scale_reciprocal)
    IN  FAdd(FMul(multiplier_x_y_z,
                  FSub(FMul(multiplier_x, FSub(x_quantized, x_zero_point)),
                       FMul(multiplier_y, FSub(y_quantized, y_zero_point)))),
             z_zero_point)

\* an add_quant that adds the offsets without aligning the scales
add_quant_unaligned(x_quantized, x_zero_point, x_scale_reciprocal, y_quantized, y_zero_point, y_scale_reciprocal, z_zero_point, z_scale_reciprocal) ==
    IF Bad(multiplier_x_y(x_scale_reciprocal, y_scale_reciprocal)) THEN Thrown
    ELSE FAdd(FAdd(FSub(x_quantized, x_zero_point), FSub(y_quantized, y_zero_point)),
              z_zero_point)

add_quant(x_quantized, x_zero_point, x_scale_reciprocal, y_quantized, y_zero_point, y_scale_reciprocal, z_zero_point, z_scale_reciprocal) ==
    add_quant_aligned(multiplier_x_y(x_scale_reciprocal, y_scale_reciprocal), x_quantized, x_zero_point, x_scale_reciprocal, y_quantized, y_zero_point, y_scale_reciprocal, z_zero_point, z_scale_reciprocal)

sub_quant(x_quantized, x_zero_point, x_scale_reciprocal, y_quantized, y_zero_point, y_scale_reciprocal, z_zero_point, z_scale_reciprocal) ==
    sub_quant_aligned(multiplier_x_y(x_scale_reciprocal, y_scale_reciprocal), x_quantized, x_zero_point, x_scale_reciprocal, y_quantized, y_zero_point, y_scale_reciprocal, z_zero_point, z_scale_reciprocal)

-----------------------------------------------------------------------------
(* The quantized Matrix class (src/unnamed/part_002): its helper functions *)
(* where they differ from those above.  Its constructor and its add, sub,  *)
(* hadamard_product, mul and scalar_mul helpers are the ones above.        *)

\* constr_matrix_config of the quantized class: the four comparisons are
\* computed and their results dropped, nothing is asserted
q_constr_matrix_config(matrix, o) ==
    LET shape0_eq == matrix.shape[1] = o.shape[1]
        shape1_eq == matrix.shape[2] = o.shape[2]
        zero_point_eq == matrix.zero_point = o.zero_point
        scale_eq == matrix.scale = o.scale
    IN  TRUE

\* scalar_div of the quantized class: no assertion on the scalar
q_scalar_div(matrix, s) ==
    OkValues(Array([i \in 1..Len(matrix) |-> FDiv(matrix[i], s)]))

\* the inner loop of transpose of the quantized class, for (j = 0; j < cols;
\* i++): the step counts i up and leaves j alone. It is followed for
\* rows * cols iterations, all that the two loops of a transpose have to do; the
\* body changes neither j nor cols, so a loop still running then never stops
RECURSIVE q_transpose_cols(_, _, _, _, _, _, _)
q_transpose_cols(matrix, rows, cols, i, j, result, n) ==
    IF ~(j < cols) THEN [diverges |-> FALSE, i |-> i, result |-> result]
    ELSE IF n >= rows * cols THEN [diverges |-> TRUE, i |-> i, result |-> result]
    ELSE q_transpose_cols(matrix, rows, cols, i + 1, j,
                          ArrSet(result, j * rows + i, At(matrix, i * cols + j)),
                          n + 1)

\* the outer loop of transpose of the quantized class
RECURSIVE q_transpose_rows(_, _, _, _, _)
q_transpose_rows(matrix, rows, cols, i, result) ==
    IF ~(i < rows) THEN OkValues(result)
    ELSE Bind(q_transpose_cols(matrix, rows, cols, i, 0, result, 0),
              LAMBDA inner :
                  IF inner.diverges THEN FailValues("diverges")
                  ELSE q_transpose_rows(matrix, rows, cols, inner.i + 1,
                                        inner.result))

\* transpose of the quantized class
q_transpose(matrix, shape) ==
    q_transpose_rows(matrix, Number(shape[1]), Number(shape[2]), 0, <<>>)

\* Number(r) * (cols - 1) + Number(c) for the counters of get_minor, which
\* start at Field(-1): Number of Field(-1) is far beyond every array index,
\* and an index that is no array index is -1 here
q_minor_idx(r, c, cols) ==
    IF c = Field(-1) THEN -1
    ELSE IF r = Field(-1) THEN (IF cols - 1 = 0 THEN Number(c) ELSE -1)
    ELSE Number(r) * (cols - 1) + Number(c)

\* Provable.if(condition, Field, x, y) on a constant condition
If(condition, x, y) == IF condition THEN x ELSE y

\* the j loop of the witnessed-index get_minor: it runs for every row i,
\* the excluded row too. acc.minor is the buffer, acc.writes the assignments
\* made so far: the index (-1 when it is no array index), whether the column
\* test let the source cell through, and whether the buffer stayed the same
RECURSIVE q_get_minor_cols(_, _, _, _, _, _, _, _)
q_get_minor_cols(matrix, col, cols, i, r, j, c, acc) ==
    IF j >= cols THEN acc
    ELSE LET j_not_col == j # Number(col)
             c1 == If(j_not_col, FAdd(c, Field(1)), c)
             idx == q_minor_idx(r, c1, cols)
             written == ArrSet(acc.minor, idx,
                               If(j_not_col, At(matrix, i * cols + j),
                                  At(acc.minor, idx)))
         IN  q_get_minor_cols(matrix, col, cols, i, r, j + 1, c1,
                 [minor |-> written,
                  writes |-> Append(acc.writes,
                                    [idx |-> idx, i |-> i, j |-> j,
                                     j_not_col |-> j_not_col,
                                     same |-> written = acc.minor])])

\* the i loop of the witnessed-index get_minor
RECURSIVE q_get_minor_rows(_, _, _, _, _, _, _, _)
q_get_minor_rows(matrix, row, col, rows, cols, i, r, acc) ==
    IF i >= rows THEN acc
    ELSE LET i_not_row == i # Number(row)
             r1 == If(i_not_row, FAdd(r, Field(1)), r)
         IN  q_get_minor_rows(matrix, row, col, rows, cols, i + 1, r1,
                 q_get_minor_cols(matrix, col, cols, i, r1, 0, Field(-1), acc))

q_get_minor_run(matrix, row, col, shape, minor) ==
    q_get_minor_rows(matrix, row, col, Number(shape[1]), Number(shape[2]), 0,
                     Field(-1), [minor |-> minor, writes |-> <<>>])

q_get_minor(matrix, row, col, shape, minor) ==
    q_get_minor_run(matrix, row, col, shape, minor).minor

\* Provable.switch([is_2, is_1, neither], Field, [det_2, det_1, det_other])
Switch(is_2, is_1, det_2, det_1, det_other) ==
    IF is_2 THEN det_2 ELSE IF is_1 THEN det_1 ELSE det_other

RECURSIVE q_determinant(_, _)
RECURSIVE q_determinant_loop(_, _, _, _)

\* the expansion loop of determinant of the quantized class; every minor
\* buffer is as long as the matrix
q_determinant_loop(matrix, shape, i, acc) ==
    IF i >= Number(shape[1]) \/ ~acc.ok THEN acc
    ELSE Bind(q_determinant(q_get_minor(matrix, Field(0), Field(i), shape,
                                        Fill(Len(matrix), Field(0))),
                            <<FSub(shape[1], Field(1)), FSub(shape[2], Field(1))>>),
              LAMBDA d :
                  q_determinant_loop(matrix, shape, i + 1,
                      IF d.ok
                      THEN OkField(FAdd(acc.f, FMul(FMul(sign_loop(i, Field(1)),
                                                         At(matrix, i)), d.f)))
                      ELSE d))

\* determinant of the quantized class: the three candidates are computed one
\* after the other, whatever the size, and one is selected
q_determinant(matrix, shape) ==
    IF ~AssertEqual(shape[1], shape[2]) THEN FailField("assertEqual")
    ELSE Bind(FSub(FMul(At(matrix, 0), At(matrix, 3)),
                   FMul(At(matrix, 1), At(matrix, 2))),
              LAMBDA det_shape_eq_2 :
                  IF Bad(det_shape_eq_2) THEN FailField("throw")
                  ELSE Bind(q_determinant_loop(matrix, shape, 0, OkField(Field(0))),
                            LAMBDA det_shape_other :
                                IF ~det_shape_other.ok THEN det_shape_other
                                ELSE IF Bad(det_shape_other.f) THEN FailField("throw")
                                ELSE OkField(Switch(shape[1] = Field(2),
                                                    shape[1] = Field(1),
                                                    det_shape_eq_2, At(matrix, 0),
                                                    det_shape_other.f))))

\* one cofactor of adjoint of the quantized class; the minor buffer is as
\* long as the matrix
q_cofactor(matrix, shape, i, j) ==
    Bind(q_determinant(q_get_minor(matrix, Field(i), Field(j), shape,
                                   Fill(Len(matrix), Field(0))),
                       <<FSub(shape[1], Field(1)), FSub(shape[2], Field(1))>>),
         LAMBDA d :
             IF ~d.ok THEN d ELSE OkField(FMul(sign_loop(i + j, Field(1)), d.f)))

\* adjoint of the quantized class: the cofactors, then transpose
q_adjoint(matrix, shape) ==
    IF ~AssertEqual(shape[1], shape[2]) THEN FailValues("assertEqual")
    ELSE Bind(Array([t \in 1..(Number(shape[1]) * Number(shape[2])) |->
                  q_cofactor(matrix, shape, (t - 1) \div Number(shape[2]),
                             (t - 1) % Number(shape[2]))]),
              LAMBDA cof :
                  IF \E t \in 1..Len(cof) : ~cof[t].ok
                  THEN FailValues(cof[CHOOSE t \in 1..Len(cof) :
                                          ~cof[t].ok /\ \A u \in 1..(t - 1) : cof[u].ok].err)
                  ELSE q_transpose(Array([t \in 1..Len(matrix) |->
                                       IF t <= Len(cof) THEN cof[t].f ELSE Field(0)]),
                                   shape))

-----------------------------------------------------------------------------
(* The quantized Matrix class (src/unnamed/part_002): its operations.      *)

QMatrix_add(self, o) ==
    IF ~q_constr_matrix_config(self, o) THEN Failure("assertEquals")
    ELSE IF ~AssertEqual(o.zero_point, Field(0)) THEN Failure("assertEqual")
    ELSE IF ~AssertEqual(o.scale, Field(1)) THEN Failure("assertEqual")
    ELSE Deliver(add(self.values, o.values), self.shape, self.zero_point, self.scale)

QMatrix_sub(self, o) ==
    IF ~q_constr_matrix_config(self, o) THEN Failure("assertEquals")
    ELSE IF ~AssertEqual(o.zero_point, Field(0)) THEN Failure("assertEqual")
    ELSE IF ~AssertEqual(o.scale, Field(1)) THEN Failure("assertEqual")
    ELSE Deliver(sub(self.values, o.values), self.shape, self.zero_point, self.scale)

QMatrix_hadamard_product(self, o) ==
    IF ~q_constr_matrix_config(self, o) THEN Failure("assertEquals")
    ELSE IF ~AssertEqual(o.zero_point, Field(0)) THEN Failure("assertEqual")
    ELSE IF ~AssertEqual(o.scale, Field(1)) THEN Failure("assertEqual")
    ELSE Deliver(hadamard_product(self.values, o.values),
                 self.shape, self.zero_point, self.scale)

QMatrix_scalar_div(self, s) ==
    IF ~AssertEqual(self.zero_point, Field(0)) THEN Failure("assertEqual")
    ELSE IF ~AssertEqual(self.scale, Field(1)) THEN Failure("assertEqual")
    ELSE LET r == q_scalar_div(self.values, s)
         IN  IF ~r.ok THEN Failure(r.err)
             ELSE Deliver(r.values, self.shape, self.zero_point, self.scale)
\* transpose of the quantized class
QMatrix_transpose(self) ==
    Bind(q_transpose(self.values, self.shape), LAMBDA r :
        IF ~r.ok THEN Failure(r.err)
        ELSE Deliver(r.values, <<self.shape[2], self.shape[1]>>,
                     self.zero_point, self.scale))

QMatrix_determinant(self) ==
    IF ~AssertEqual(self.zero_point, Field(0)) THEN Failure("assertEqual")
    ELSE IF ~AssertEqual(self.scale, Field(1)) THEN Failure("assertEqual")
    ELSE LET d == q_determinant(self.values, self.shape)
         IN  IF ~d.ok THEN Failure(d.err) ELSE OkScalar(d.f)
QMatrix_adjoint(self) ==
    IF ~AssertEqual(self.zero_point, Field(0)) THEN Failure("assertEqual")
    ELSE IF ~AssertEqual(self.scale, Field(1)) THEN Failure("assertEqual")
    ELSE Bind(q_adjoint(self.values, self.shape), LAMBDA r :
             IF ~r.ok THEN Failure(r.err)
             ELSE Deliver(r.values, self.shape, self.zero_point, self.scale))

quant_add(self, o) ==
    IF ~q_constr_matrix_config(self, o) THEN Failure("assertEquals")
    ELSE Deliver(Array([i \in 1..Len(self.values) |->
                     add_quant(self.values[i], self.zero_point, self.scale,
                               At(o.values, i - 1), o.zero_point, o.scale,
                               self.zero_point, self.scale)]),
                 self.shape, self.zero_point, self.scale)

quant_sub(self, o) ==
    IF ~q_constr_matrix_config(self, o) THEN Failure("assertEquals")
    ELSE Deliver(Array([i \in 1..Len(self.values) |->
                     sub_quant(self.values[i], self.zero_point, self.scale,
                               At(o.values, i - 1), o.zero_point, o.scale,
                               self.zero_point, self.scale)]),
                 self.shape, self.zero_point, self.scale)

quant_hadamard_product(self, o) ==
    IF ~q_constr_matrix_config(self, o) THEN Failure("assertEquals")
    ELSE Deliver(Array([i \in 1..Len(self.values) |->
                     mul_quant(self.values[i], self.zero_point, self.scale,
                               At(o.values, i - 1), o.zero_point, o.scale,
                               self.zero_point, self.scale)]),
                 self.shape, self.zero_point, self.scale)

\* the k loop of quant_mul: element starts at the zero point and takes one
\* add_quant of one mul_quant per k
RECURSIVE quant_mul_dot(_, _, _, _, _, _)
quant_mul_dot(self, o, i, j, k, element) ==
    IF k >= Number(self.shape[2]) THEN element
    ELSE quant_mul_dot(self, o, i, j, k + 1,
             add_quant(mul_quant(At(self.values, i * Number(self.shape[2]) + k),
                                 self.zero_point, self.scale,
                                 At(o.values, k * Number(o.shape[2]) + j),
                                 o.zero_point, o.scale,
                                 self.zero_point, self.scale),
                       self.zero_point, self.scale,
                       element, self.zero_point, self.scale,
                       self.zero_point, self.scale))
\* quant_scalar_div: div_quant of each cell by the scalar, taken as a
\* quantized value with zero point 0 and scale 1
quant_scalar_div(self, s) ==
    Deliver(Array([i \in 1..Len(self.values) |->
                div_quant(self.values[i], self.zero_point, self.scale,
                          s, Field(0), Field(1), self.zero_point, self.scale)]),
            self.shape, self.zero_point, self.scale)

\* a quant_mul that accumulates from 0, as plain mul does, not from the
\* zero point
quant_mul_from_zero(self, o) ==
    IF ~AssertEqual(self.zero_point, o.zero_point) THEN Failure("assertEqual")
    ELSE IF ~AssertEqual(self.scale, o.scale) THEN Failure("assertEqual")
    ELSE IF ~AssertEqual(self.shape[2], o.shape[1]) THEN Failure("assertEqual")
    ELSE LET rows1 == Number(self.shape[1])
             cols2 == Number(o.shape[2])
         IN  Deliver(Array([t \in 1..(rows1 * cols2) |->
                         quant_mul_dot(self, o, (t - 1) \div cols2, (t - 1) % cols2,
                                       0, Field(0))]),
                     <<self.shape[1], o.shape[2]>>, self.zero_point, self.scale)

quant_mul(self, o) ==
    IF ~AssertEqual(self.zero_point, o.zero_point) THEN Failure("assertEqual")
    ELSE IF ~AssertEqual(self.scale, o.scale) THEN Failure("assertEqual")
    ELSE IF ~AssertEqual(self.shape[2], o.shape[1]) THEN Failure("assertEqual")
    ELSE LET rows1 == Number(self.shape[1])
             cols2 == Number(o.shape[2])
         IN  Deliver(Array([t \in 1..(rows1 * cols2) |->
                         quant_mul_dot(self, o, (t - 1) \div cols2, (t - 1) % cols2,
                                       0, self.zero_point)]),
                     <<self.shape[1], o.shape[2]>>, self.zero_point, self.scale)

\* the expansion loop of quant_determinant: each minor, in a buffer as long
\* as the values, is made a Matrix of shape (rows - 1, cols - 1)
RECURSIVE quant_determinant_loop(_, _, _)
quant_determinant_loop(self, i, acc) ==
    IF i >= Number(self.shape[1]) \/ ~acc.ok THEN acc
    ELSE Bind(Matrix(q_get_minor(self.values, Field(0), Field(i), self.shape,
                                 Fill(Len(self.values), Field(0))),
                     <<FSub(self.shape[1], Field(1)), FSub(self.shape[2], Field(1))>>,
                     self.zero_point, self.scale),
              LAMBDA matrix :
                  quant_determinant_loop(self, i + 1,
                      IF ~matrix.ok THEN matrix
                      ELSE Bind(mul_quant(sign_loop(i, Field(1)), Field(0), Field(1),
                                          At(self.values, i), self.zero_point, self.scale,
                                          self.zero_point, self.scale),
                                LAMBDA term :
                                    IF Bad(term) THEN Failure("throw")
                                    ELSE Bind(QMatrix_determinant(matrix.m), LAMBDA d :
                                             IF ~d.ok THEN d
                                             ELSE OkScalar(add_quant(
                                                      acc.f, self.zero_point, self.scale,
                                                      mul_quant(term, self.zero_point,
                                                                self.scale, d.f,
                                                                self.zero_point, self.scale,
                                                                self.zero_point, self.scale),
                                                      self.zero_point, self.scale,
                                                      self.zero_point, self.scale))))))

quant_determinant(self) ==
    IF ~AssertEqual(self.shape[1], self.shape[2]) THEN Failure("assertEqual")
    ELSE Bind(sub_quant(mul_quant(At(self.values, 0), self.zero_point, self.scale,
                                  At(self.values, 3), self.zero_point, self.scale,
                                  self.zero_point, self.scale),
                        self.zero_point, self.scale,
                        mul_quant(At(self.values, 1), self.zero_point, self.scale,
                                  At(self.values, 2), self.zero_point, self.scale,
                                  self.zero_point, self.scale),
                        self.zero_point, self.scale, self.zero_point, self.scale),
              LAMBDA det_2x2 :
                  IF Bad(det_2x2) THEN Failure("throw")
                  ELSE Bind(quant_determinant_loop(self, 0, OkScalar(self.zero_point)),
                            LAMBDA det_other :
                                IF ~det_other.ok THEN det_other
                                ELSE IF Bad(det_other.f) THEN Failure("throw")
                                ELSE OkScalar(Switch(self.shape[1] = Field(2),
                                                     self.shape[1] = Field(1),
                                                     det_2x2, At(self.values, 0),
                                                     det_other.f))))

\* the body of the j loop of quant_adjoint: the cofactor of cell (i, j)
quant_cofactor(self, i, j) ==
    Bind(Matrix(q_get_minor(self.values, Field(i), Field(j), self.shape,
                            Fill(Len(self.values), Field(0))),
                <<FSub(self.shape[1], Field(1)), FSub(self.shape[2], Field(1))>>,
                self.zero_point, self.scale),
         LAMBDA matrix :
             IF ~matrix.ok THEN matrix
             ELSE Bind(quant_determinant(matrix.m), LAMBDA d :
                      IF ~d.ok THEN d
                      ELSE OkScalar(mul_quant(sign_loop(i + j, Field(1)), Field(0), Field(1),
                                              d.f, self.zero_point, self.scale,
                                              self.zero_point, self.scale))))

quant_adjoint(self) ==
    IF ~AssertEqual(self.shape[1], self.shape[2]) THEN Failure("assertEqual")
    ELSE Bind(Array([t \in 1..(Number(self.shape[1]) * Number(self.shape[2])) |->
                  quant_cofactor(self, (t - 1) \div Number(self.shape[2]),
                                 (t - 1) % Number(self.shape[2]))]),
              LAMBDA cof :
                  IF \E t \in 1..Len(cof) : ~cof[t].ok
                  THEN cof[CHOOSE t \in 1..Len(cof) :
                               ~cof[t].ok /\ \A u \in 1..(t - 1) : cof[u].ok]
                  ELSE Bind(q_transpose(Array([t \in 1..Len(self.values) |->
                                            IF t <= Len(cof) THEN cof[t].f
                                            ELSE Field(0)]),
                                        self.shape),
                            LAMBDA r :
                                IF ~r.ok THEN Failure(r.err)
                                ELSE Deliver(r.values, self.shape, self.zero_point,
                                             self.scale)))

\* quant_inverse: the determinant is compared with Field(0)
quant_inverse(self) ==
    IF ~AssertEqual(self.shape[1], self.shape[2]) THEN Failure("assertEqual")
    ELSE Bind(quant_determinant(self), LAMBDA det :
             IF ~det.ok THEN det
             ELSE IF det.f = Field(0) THEN Failure("assertNotEquals")
             ELSE Bind(quant_adjoint(self), LAMBDA ad_joint :
                      IF ~ad_joint.ok THEN ad_joint
                      ELSE [Deliver(Array([t \in 1..Len(self.values) |->
                                       IF t <= Number(self.shape[1]) * Number(self.shape[2])
                                       THEN div_quant(At(ad_joint.m.values, t - 1),
                                                      self.zero_point, self.scale,
                                                      det.f,
                                                      self.zero_point, self.scale,
                                                      self.zero_point, self.scale)
                                       ELSE Field(0)]),
                                    self.shape, self.zero_point, self.scale)
                                EXCEPT !.divs = Number(self.shape[1])
                                                    * Number(self.shape[2])]))

-----------------------------------------------------------------------------
(* The scenarios: the arguments of the two constructor calls a caller      *)
(* makes before it uses the operations.                                    *)

\* the sequences of len naturals whose sum is at most total
RECURSIVE SumSeqs(_, _)
SumSeqs(len, total) ==
    IF len = 0 \/ total < 0 THEN {q \in {<<>>} : total >= 0}
    ELSE UNION { { Append(q, v) : v \in 0..(total - SumSeq(q)) } :
                    q \in SumSeqs(len - 1, total) }

MaxOf(S) == CHOOSE x \in S : \A y \in S : y <= x

Args(values, shape, zero_point, scale) ==
    [values |-> values, shape |-> shape, zero_point |-> zero_point, scale |-> scale]

Plain(values, shape) == Args(values, shape, Field(0), Field(1))

\* one constructor call with any value count, shape and quantization
NewArgs ==
    { [kind |-> "new", a |-> Args(v, <<r, c>>, z, s), b |-> Args(v, <<r, c>>, z, s)] :
        v \in UNION { SumSeqs(len, MaxSum) : len \in 0..MaxLen },
        r \in 0..MaxDim, c \in 0..MaxDim, z \in {0, 1}, s \in {1, 2} }

\* shapes of two operands: equal, or the left columns equal to the right rows
PairShapes ==
    { <<r, c, r, c>> : r \in 0..MaxDim, c \in 0..MaxDim }
    \cup { <<m, n, n, p>> : m \in 0..MaxDim, n \in 0..MaxDim, p \in 0..MaxDim }

\* two plain matrices
PairArgs ==
    UNION { { [kind |-> "pair",
               a |-> Plain(SubSeq(v, 1, sh[1] * sh[2]), <<sh[1], sh[2]>>),
               b |-> Plain(SubSeq(v, sh[1] * sh[2] + 1, Len(v)), <<sh[3], sh[4]>>)] :
                v \in SumSeqs(sh[1] * sh[2] + sh[3] * sh[4],
                             MaxPairWeight - 2 * MaxOf({sh[k] : k \in 1..4})) } :
            sh \in PairShapes }

\* one plain square matrix, used as both operands
SquareArgs ==
    UNION { { [kind |-> "square", a |-> Plain(v, <<n, n>>), b |-> Plain(v, <<n, n>>)] :
                v \in SumSeqs(n * n, MaxWeight - 2 * n) } : n \in 0..MaxN }

\* the operands of the repository's tests (matrix_ops.test.ts)
TestArgs ==
    { [kind |-> "test", a |-> Plain(<<1, 2, 3, 4, 5, 6>>, <<2, 3>>),
                        b |-> Plain(<<7, 8, 9, 10, 11, 12>>, <<3, 2>>)],
      [kind |-> "test", a |-> Plain(<<1, 2, 3, 4, 5, 6, 7, 8, 9>>, <<3, 3>>),
                        b |-> Plain(<<1, 2, 3, 4, 5, 6, 7, 8, 9>>, <<3, 3>>)],
      [kind |-> "test", a |-> Plain(<<0, 1, 2, 4, 5, 6, 7, 8, 0>>, <<3, 3>>),
                        b |-> Plain(<<0, 1, 2, 4, 5, 6, 7, 8, 0>>, <<3, 3>>)],
      [kind |-> "test", a |-> Plain(<<0, 2, 3, 4, 5, 6, 7, 8, 9>>, <<3, 3>>),
                        b |-> Plain(<<0, 2, 3, 4, 5, 6, 7, 8, 9>>, <<3, 3>>)] }
\* two different operands of the repository's 3 x 3 tests, for two calls of
\* the same function
TwoRunArgs ==
    { [kind |-> "runs", a |-> Plain(u, <<3, 3>>), b |-> Plain(v, <<3, 3>>)] :
        u \in { <<1, 2, 3, 4, 5, 6, 7, 8, 9>>, <<0, 1, 2, 4, 5, 6, 7, 8, 0>> },
        v \in { <<0, 1, 2, 4, 5, 6, 7, 8, 0>>, <<0, 2, 3, 4, 5, 6, 7, 8, 9>> } }

\* the scale reciprocals of quantized operands: 1, 2 and 1/2 pass the range
\* check of add_quant, 3 does not (300 > 255), 0 cannot be divided by
HalfScale == FDiv(Field(1), Field(2))

\* zero point and scale of the left and of the right operand
QuantConfigs ==
    ({ <<za, sa, zb, sb>> : za \in {0, 1}, sa \in {1, 2}, zb \in {0, 1}, sb \in {1, 2} }
        \ { <<0, 1, 0, 1>> })
    \cup { <<0, HalfScale, 0, HalfScale>>, <<0, 1, 0, HalfScale>>,
           <<0, 3, 0, 1>>, <<0, 1, 0, 3>>, <<0, 0, 0, 0>> }

\* two operands of the quantized operations
QuantArgs ==
    UNION { { [kind |-> "quant",
               a |-> Args(SubSeq(v, 1, sh[1] * sh[2]), <<sh[1], sh[2]>>, q[1], q[2]),
               b |-> Args(SubSeq(v, sh[1] * sh[2] + 1, Len(v)), <<sh[3], sh[4]>>,
                          q[3], q[4])] :
                v \in SumSeqs(sh[1] * sh[2] + sh[3] * sh[4],
                              MaxQuantWeight - 2 * MaxOf({sh[k] : k \in 1..4})),
                q \in QuantConfigs } :
            sh \in PairShapes }

\* the operands of the quantized add test (part_001): all 1 at scale 1 and
\* all 2 at scale 2
QuantTestArgs ==
    { [kind |-> "test",
       a |-> Args(Fill(9, Field(1)), <<3, 3>>, Field(0), Field(1)),
       b |-> Args(Fill(9, Field(2)), <<3, 3>>, Field(0), Field(2))] }

Scenarios ==
    NewArgs \cup PairArgs \cup SquareArgs \cup TestArgs \cup QuantArgs \cup QuantTestArgs
        \cup TwoRunArgs

\* the arguments of one call of a scalar quantized operation
ScalarArgs ==
    { [kind |-> "scalar", x |-> [q |-> xq, z |-> xz, s |-> xs],
                          y |-> [q |-> yq, z |-> yz, s |-> ys],
                          z |-> [z |-> zz, s |-> zs]] :
        xq \in 0..MaxQ, xz \in {0, 1}, xs \in {0, 1, 2, 3, HalfScale},
        yq \in 0..MaxQ, yz \in {0, 1}, ys \in {0, 1, 2, 3, HalfScale},
        zz \in {0, 1}, zs \in {0, 1, 2, 3, HalfScale} }

\* the scalars handed to scalar_mul and scalar_div
Scalars == {Field(0), Field(1), Field(2), Field(-1)}

NoResult == Failure("none")

-----------------------------------------------------------------------------
(* The state machine: a caller constructs two matrices (pc = "new"), then  *)
(* calls one operation after another on them (pc = "ready"); out is what   *)
(* the call delivered (pc = "called") until the caller takes it.           *)

Init ==
    /\ args \in Scenarios
    /\ pc = "new"
    /\ this = NoMatrix
    /\ other = NoMatrix
    /\ scalar = Field(0)
    /\ op = "none"
    /\ out = NoResult
    /\ out2 = NoResult

\* new Matrix(...) twice: the receiver, then the other operand
Construct ==
    /\ pc = "new"
    /\ LET ra == Matrix(args.a.values, args.a.shape, args.a.zero_point, args.a.scale)
           rb == Matrix(args.b.values, args.b.shape, args.b.zero_point, args.b.scale)
       IN  /\ pc' = IF ra.ok /\ rb.ok THEN "ready" ELSE "failed"
           /\ this' = IF ra.ok /\ rb.ok THEN ra.m ELSE NoMatrix
           /\ other' = IF ra.ok /\ rb.ok THEN rb.m ELSE NoMatrix
           /\ out' = IF ra.ok THEN rb ELSE ra
    /\ op' = "new"
    /\ UNCHANGED <<args, scalar, out2>>

Add ==
    /\ pc = "ready"
    /\ pc' = "called"
    /\ op' = "add"
    /\ out' = Matrix_add(this, other)
    /\ UNCHANGED <<args, this, other, scalar, out2>>

Sub ==
    /\ pc = "ready"
    /\ pc' = "called"
    /\ op' = "sub"
    /\ out' = Matrix_sub(this, other)
    /\ UNCHANGED <<args, this, other, scalar, out2>>

Hadamard ==
    /\ pc = "ready"
    /\ pc' = "called"
    /\ op' = "hadamard_product"
    /\ out' = Matrix_hadamard_product(this, other)
    /\ UNCHANGED <<args, this, other, scalar, out2>>

Mul ==
    /\ pc = "ready"
    /\ pc' = "called"
    /\ op' = "mul"
    /\ out' = Matrix_mul(this, other)
    /\ UNCHANGED <<args, this, other, scalar, out2>>

ScalarMul ==
    \E s \in Scalars :
        /\ pc = "ready"
        /\ pc' = "called"
        /\ op' = "scalar_mul"
        /\ scalar' = s
        /\ out' = Matrix_scalar_mul(this, s)
        /\ UNCHANGED <<args, this, other, out2>>

ScalarDiv ==
    \E s \in Scalars :
        /\ pc = "ready"
        /\ pc' = "called"
        /\ op' = "scalar_div"
        /\ scalar' = s
        /\ out' = Matrix_scalar_div(this, s)
        /\ UNCHANGED <<args, this, other, out2>>
\* a transpose that works in place: the receiver becomes its own transpose
Transpose_in_place ==
    /\ pc = "ready"
    /\ pc' = "called"
    /\ op' = "transpose"
    /\ out' = Matrix_transpose(this)
    /\ this' = IF out'.ok THEN out'.m ELSE this
    /\ UNCHANGED <<args, other, scalar, out2>>

Transpose ==
    /\ pc = "ready"
    /\ pc' = "called"
    /\ op' = "transpose"
    /\ out' = Matrix_transpose(this)
    /\ UNCHANGED <<args, this, other, scalar, out2>>

Determinant ==
    /\ pc = "ready"
    /\ pc' = "called"
    /\ op' = "determinant"
    /\ out' = Matrix_determinant(this)
    /\ UNCHANGED <<args, this, other, scalar, out2>>

Adjoint ==
    /\ pc = "ready"
    /\ pc' = "called"
    /\ op' = "adjoint"
    /\ out' = Matrix_adjoint(this)
    /\ UNCHANGED <<args, this, other, scalar, out2>>

Inverse ==
    /\ pc = "ready"
    /\ pc' = "called"
    /\ op' = "inverse"
    /\ out' = Matrix_inverse(this)
    /\ UNCHANGED <<args, this, other, scalar, out2>>

\* a.mul(b).transpose() beside b.transpose().mul(a.transpose()); a call on
\* the result of a call that failed is never made
TransposeOfMul ==
    /\ pc = "ready"
    /\ pc' = "called"
    /\ op' = "transpose_of_mul"
    /\ \E ab \in {Matrix_mul(this, other)}, bt \in {Matrix_transpose(other)},
          at \in {Matrix_transpose(this)} :
          /\ out' = IF ab.ok THEN Matrix_transpose(ab.m) ELSE ab
          /\ out2' = IF ~bt.ok THEN bt ELSE IF ~at.ok THEN at
                     ELSE Matrix_mul(bt.m, at.m)
    /\ UNCHANGED <<args, this, other, scalar>>

\* the inverse test of matrix_ops.test.ts: inv = a.inverse(), then
\* a.mul(new Matrix(inv.values, a.shape, Field(0), Field(1)))
InverseRoundTrip ==
    /\ pc = "ready"
    /\ pc' = "called"
    /\ op' = "mul_inverse"
    /\ \E inv \in {Matrix_inverse(this)} :
          \E new_matrix \in {Matrix(inv.m.values, this.shape, Field(0), Field(1))} :
              /\ out2' = inv
              /\ out' = IF ~inv.ok THEN inv
                        ELSE IF ~new_matrix.ok THEN new_matrix
                        ELSE Matrix_mul(this, new_matrix.m)
    /\ UNCHANGED <<args, this, other, scalar>>

\* the caller takes the result and holds its two matrices as before
\* the operations of the quantized class (part_002)
QAdd ==
    /\ pc = "ready"
    /\ pc' = "called"
    /\ op' = "q_add"
    /\ out' = QMatrix_add(this, other)
    /\ UNCHANGED <<args, this, other, scalar, out2>>

QSub ==
    /\ pc = "ready"
    /\ pc' = "called"
    /\ op' = "q_sub"
    /\ out' = QMatrix_sub(this, other)
    /\ UNCHANGED <<args, this, other, scalar, out2>>

QHadamard ==
    /\ pc = "ready"
    /\ pc' = "called"
    /\ op' = "q_hadamard_product"
    /\ out' = QMatrix_hadamard_product(this, other)
    /\ UNCHANGED <<args, this, other, scalar, out2>>

QScalarDiv ==
    \E s \in Scalars :
        /\ pc = "ready"
        /\ pc' = "called"
        /\ op' = "q_scalar_div"
        /\ scalar' = s
        /\ out' = QMatrix_scalar_div(this, s)
        /\ UNCHANGED <<args, this, other, out2>>

QuantAdd ==
    /\ pc = "ready"
    /\ pc' = "called"
    /\ op' = "quant_add"
    /\ out' = quant_add(this, other)
    /\ UNCHANGED <<args, this, other, scalar, out2>>

QuantSub ==
    /\ pc = "ready"
    /\ pc' = "called"
    /\ op' = "quant_sub"
    /\ out' = quant_sub(this, other)
    /\ UNCHANGED <<args, this, other, scalar, out2>>

QuantHadamard ==
    /\ pc = "ready"
    /\ pc' = "called"
    /\ op' = "quant_hadamard_product"
    /\ out' = quant_hadamard_product(this, other)
    /\ UNCHANGED <<args, this, other, scalar, out2>>

QuantMul ==
    /\ pc = "ready"
    /\ pc' = "called"
    /\ op' = "quant_mul"
    /\ out' = quant_mul(this, other)
    /\ UNCHANGED <<args, this, other, scalar, out2>>

QuantDeterminant ==
    /\ pc = "ready"
    /\ pc' = "called"
    /\ op' = "quant_determinant"
    /\ out' = quant_determinant(this)
    /\ UNCHANGED <<args, this, other, scalar, out2>>

QuantAdjoint ==
    /\ pc = "ready"
    /\ pc' = "called"
    /\ op' = "quant_adjoint"
    /\ out' = quant_adjoint(this)
    /\ UNCHANGED <<args, this, other, scalar, out2>>

QuantInverse ==
    /\ pc = "ready"
    /\ pc' = "called"
    /\ op' = "quant_inverse"
    /\ out' = quant_inverse(this)
    /\ UNCHANGED <<args, this, other, scalar, out2>>
QuantScalarDiv ==
    \E s \in Scalars :
        /\ pc = "ready"
        /\ pc' = "called"
        /\ op' = "quant_scalar_div"
        /\ scalar' = s
        /\ out' = quant_scalar_div(this, s)
        /\ UNCHANGED <<args, this, other, out2>>
QDeterminant ==
    /\ pc = "ready"
    /\ pc' = "called"
    /\ op' = "q_determinant"
    /\ out' = QMatrix_determinant(this)
    /\ UNCHANGED <<args, this, other, scalar, out2>>

QTranspose ==
    /\ pc = "ready"
    /\ pc' = "called"
    /\ op' = "q_transpose"
    /\ out' = QMatrix_transpose(this)
    /\ UNCHANGED <<args, this, other, scalar, out2>>

QAdjoint ==
    /\ pc = "ready"
    /\ pc' = "called"
    /\ op' = "q_adjoint"
    /\ out' = QMatrix_adjoint(this)
    /\ UNCHANGED <<args, this, other, scalar, out2>>
\* what a call of get_minor leaves behind: the excluded row and column, the
\* buffer returned and the assignments made to it
MinorResult(row, col, minor, writes) ==
    [ok |-> TRUE, err |-> "none", kind |-> "minor", m |-> NoMatrix, f |-> 0,
     muls |-> 0, divs |-> 0, row |-> row, col |-> col, minor |-> minor,
     writes |-> writes]

\* get_minor of both classes as adjoint calls it, on a zero-filled buffer as
\* long as the matrix: out is the result of the constant-index get_minor
\* (matrix_ops.ts), out2 that of the witnessed-index one (part_002)
GetMinor ==
    \E row \in 0..MaxN, col \in 0..MaxN :
        /\ pc = "ready"
        /\ this.shape[1] = this.shape[2]
        /\ row < Number(this.shape[1]) /\ col < Number(this.shape[2])
        /\ pc' = "called"
        /\ op' = "get_minor"
        /\ out' = MinorResult(row, col,
                      get_minor(this.values, Field(row), Field(col), this.shape,
                                Fill(Len(this.values), Field(0))), <<>>)
        /\ out2' = LET run == q_get_minor_run(this.values, Field(row), Field(col),
                                              this.shape,
                                              Fill(Len(this.values), Field(0)))
                   IN  MinorResult(row, col, run.minor, run.writes)
        /\ UNCHANGED <<args, this, other, scalar>>
\* the steps of one call of the helper fn of matrix_ops.ts on the plain
\* operands m and o, and whether the call returned
StepsOf(fn, m, o, row, col) ==
    IF fn = "mul" THEN mul_steps(m.values, o.values, m.shape, o.shape)
    ELSE IF fn = "determinant" THEN determinant_steps(m.values, m.shape)
    ELSE IF fn = "adjoint" THEN adjoint_steps(m.values, m.shape)
    ELSE IF fn = "inverse" THEN inverse_steps(m.values, m.shape)
    ELSE get_minor_steps(m.values, Field(row), Field(col), Number(m.shape[1]),
                         Number(m.shape[2]), 0)

ReturnsFrom(fn, m, o) ==
    IF fn = "mul" THEN mul(m.values, o.values, m.shape, o.shape).ok
    ELSE IF fn = "determinant" THEN determinant(m.values, m.shape).ok
    ELSE IF fn = "adjoint" THEN adjoint(m.values, m.shape).ok
    ELSE IF fn = "inverse" THEN inverse(m.values, m.shape).ok
    ELSE TRUE

StepsResult(fn, row, col, steps, done) ==
    [ok |-> done, err |-> "none", kind |-> "steps", m |-> NoMatrix, f |-> 0,
     muls |-> 0, divs |-> 0, fn |-> fn, row |-> row, col |-> col,
     steps |-> steps]

\* two calls of the same helper on two plain operands of one shape, as the
\* public operations make them once the quantization is found neutral: the
\* first on this (and other), the second on other (and this)
TwoRuns ==
    \E fn \in {"mul", "determinant", "adjoint", "inverse", "get_minor"},
       row \in 0..MaxN, col \in 0..MaxN :
        /\ pc = "ready"
        /\ this.shape = other.shape
        /\ this.zero_point = Field(0) /\ this.scale = Field(1)
        /\ other.zero_point = Field(0) /\ other.scale = Field(1)
        /\ IF fn = "get_minor"
           THEN /\ this.shape[1] = this.shape[2]
                /\ row < Number(this.shape[1]) /\ col < Number(this.shape[2])
           ELSE row = 0 /\ col = 0
        /\ pc' = "called"
        /\ op' = "runs"
        /\ out' = StepsResult(fn, row, col, StepsOf(fn, this, other, row, col),
                              ReturnsFrom(fn, this, other))
        /\ out2' = StepsResult(fn, row, col, StepsOf(fn, other, this, row, col),
                               ReturnsFrom(fn, other, this))
        /\ UNCHANGED <<args, this, other, scalar>>

Return ==
    /\ pc = "called"
    /\ pc' = "ready"
    /\ op' = "new"
    /\ scalar' = Field(0)
    /\ out' = OkMatrix(other)
    /\ out2' = NoResult
    /\ UNCHANGED <<args, this, other>>

Next ==
    \/ Construct
    \/ Add
    \/ Sub
    \/ Hadamard
    \/ Mul
    \/ ScalarMul
    \/ ScalarDiv
    \/ Transpose
    \/ Determinant
    \/ Adjoint
    \/ Inverse
    \/ TransposeOfMul
    \/ InverseRoundTrip
    \/ QAdd
    \/ QSub
    \/ QHadamard
    \/ QScalarDiv
    \/ QDeterminant
    \/ QuantAdd
    \/ QuantSub
    \/ QuantHadamard
    \/ QuantMul
    \/ QuantDeterminant
    \/ QuantAdjoint
    \/ QuantInverse
    \/ QuantScalarDiv
    \/ QTranspose
    \/ QAdjoint
    \/ GetMinor
    \/ TwoRuns
    \/ Return

Spec == Init /\ [][Next]_vars

-----------------------------------------------------------------------------
(* The scalar quantized operations called on their own: a caller holds the *)
(* eight arguments (pc = "scalar") and calls one operation after another.  *)

\* a returned field element, or the exception the computation threw
ScalarResult(f) == IF Bad(f) THEN Failure("throw") ELSE OkScalar(f)

QuantInit ==
    /\ args \in ScalarArgs
    /\ pc = "scalar"
    /\ this = NoMatrix
    /\ other = NoMatrix
    /\ scalar = Field(0)
    /\ op = "none"
    /\ out = NoResult
    /\ out2 = NoResult

MulQuant ==
    /\ pc = "scalar"
    /\ pc' = "scalar_called"
    /\ op' = "mul_quant"
    /\ out' = ScalarResult(mul_quant(args.x.q, args.x.z, args.x.s, args.y.q, args.y.z, args.y.s,
                                 args.z.z, args.z.s))
    /\ UNCHANGED <<args, this, other, scalar, out2>>

DivQuant ==
    /\ pc = "scalar"
    /\ pc' = "scalar_called"
    /\ op' = "div_quant"
    /\ out' = ScalarResult(div_quant(args.x.q, args.x.z, args.x.s, args.y.q, args.y.z, args.y.s,
                                 args.z.z, args.z.s))
    /\ UNCHANGED <<args, this, other, scalar, out2>>

\* add_quant; out2 holds the local multiplier_x_y at the end of the call
AddQuant ==
    /\ pc = "scalar"
    /\ pc' = "scalar_called"
    /\ op' = "add_quant"
    /\ out' = ScalarResult(add_quant(args.x.q, args.x.z, args.x.s, args.y.q, args.y.z, args.y.s,
                                 args.z.z, args.z.s))
    /\ out2' = ScalarResult(multiplier_x_y(args.x.s, args.y.s))
    /\ UNCHANGED <<args, this, other, scalar>>

\* sub_quant; out2 holds the local multiplier_x_y at the end of the call
SubQuant ==
    /\ pc = "scalar"
    /\ pc' = "scalar_called"
    /\ op' = "sub_quant"
    /\ out' = ScalarResult(sub_quant(args.x.q, args.x.z, args.x.s, args.y.q, args.y.z, args.y.s,
                                 args.z.z, args.z.s))
    /\ out2' = ScalarResult(multiplier_x_y(args.x.s, args.y.s))
    /\ UNCHANGED <<args, this, other, scalar>>

QuantReturn ==
    /\ pc = "scalar_called"
    /\ pc' = "scalar"
    /\ op' = "none"
    /\ out' = NoResult
    /\ out2' = NoResult
    /\ UNCHANGED <<args, this, other, scalar>>

QuantNext ==
    \/ MulQuant
    \/ DivQuant
    \/ AddQuant
    \/ SubQuant
    \/ QuantReturn

QuantSpec == QuantInit /\ [][QuantNext]_vars

-----------------------------------------------------------------------------
(* Reference definitions the claims are stated with.  They are written     *)
(* from the mathematics, not from the code.                                *)

Rows(m) == m.shape[1]
Cols(m) == m.shape[2]

IsPlain(m) == m.zero_point = 0 /\ m.scale = 1

IsSquare(m) == Rows(m) = Cols(m)

Called(name) == pc = "called" /\ op = name

\* cell (i, j) of a row-major array with cols columns
Cell(values, cols, i, j) == values[i * cols + j + 1]

\* r has the shape and quantization of m and one value per cell
SameFrame(r, m) ==
    /\ r.shape = m.shape
    /\ r.zero_point = m.zero_point
    /\ r.scale = m.scale
    /\ Len(r.values) = Rows(m) * Cols(m)

\* the sum over k < n of a[i,k] * b[k,j], in the field
RefDot(a, b, n, p, i, j) ==
    SumSeq(Array([k \in 1..n |-> (Cell(a, n, i, k - 1) * Cell(b, p, k - 1, j)) % P])) % P

RECURSIVE Perms(_)
Perms(S) ==
    IF S = {} THEN {<<>>}
    ELSE UNION { { <<x>> \o q : q \in Perms(S \ {x}) } : x \in S }

\* the permutations of 0..n-1, for every size the model reaches
PermTable == [n \in 0..MaxN |-> Perms(0..(n - 1))]

\* -1 for an odd number of inversions, 1 for an even number
Signature(q) ==
    IF Cardinality({ ab \in (1..Len(q)) \X (1..Len(q)) :
                        ab[1] < ab[2] /\ q[ab[1]] > q[ab[2]] }) % 2 = 0
    THEN 1 ELSE -1

\* the product over rows i of values[i, q[i]], from row i on
RECURSIVE PermProduct(_, _, _, _)
PermProduct(values, n, q, i) ==
    IF i >= n THEN 1
    ELSE (Cell(values, n, i, q[i + 1]) * PermProduct(values, n, q, i + 1)) % P

RECURSIVE LeibnizSum(_, _, _)
LeibnizSum(values, n, perms) ==
    IF perms = {} THEN 0
    ELSE LET q == CHOOSE x \in perms : TRUE
         IN  (Signature(q) * PermProduct(values, n, q, 0)
              + LeibnizSum(values, n, perms \ {q})) % P

\* the determinant of the n x n matrix values, by the Leibniz formula
RefDet(values, n) == LeibnizSum(values, n, PermTable[n])

\* the (n-1) x (n-1) matrix left when row and col are deleted
RefMinor(values, n, row, col) ==
    Array([t \in 1..((n - 1) * (n - 1)) |->
        LET r == (t - 1) \div (n - 1)
            c == (t - 1) % (n - 1)
        IN  Cell(values, n, IF r < row THEN r ELSE r + 1,
                            IF c < col THEN c ELSE c + 1)])

\* (-1)^k in the field
MinusOneTo(k) == IF k % 2 = 0 THEN 1 ELSE P - 1

\* the cofactor of cell (i, j)
RefCofactor(values, n, i, j) ==
    (MinusOneTo(i + j) * RefDet(RefMinor(values, n, i, j), n - 1)) % P

\* the expansion of the determinant along row 0
RefExpansion(values, n) ==
    SumSeq(Array([k \in 1..n |->
        (Cell(values, n, 0, k - 1) * RefCofactor(values, n, 0, k - 1)) % P])) % P

Identity(n) ==
    Array([t \in 1..(n * n) |-> IF (t - 1) \div n = (t - 1) % n THEN 1 ELSE 0])

RowOf(values, n, i) == SubSeq(values, i * n + 1, i * n + n)

HasZeroRow(values, n) ==
    \E i \in 0..(n - 1) : RowOf(values, n, i) = Fill(n, 0)

HasEqualRows(values, n) ==
    \E i \in 0..(n - 1), k \in 0..(n - 1) :
        i # k /\ RowOf(values, n, i) = RowOf(values, n, k)

\* the constructor's arguments do not fit: the value count is not rows * cols
Misfit(a) == Len(a.values) # a.shape[1] * a.shape[2]

AsMatrix(a) ==
    [values |-> a.values, shape |-> a.shape,
     zero_point |-> a.zero_point, scale |-> a.scale]

-----------------------------------------------------------------------------
(* The claims.                                                             *)

\* C1: constructing a Matrix throws, and produces no Matrix, whenever the
\* number of values differs from rows * cols, and succeeds with the given
\* values, shape, zero_point and scale whenever they are equal, also for a
\* shape with a zero dimension.
C1_ConstructorChecksLength ==
    pc # "new" =>
        /\ (pc = "failed") = (Misfit(args.a) \/ Misfit(args.b))
        /\ pc = "failed" =>
              /\ ~out.ok /\ out.kind = "none" /\ out.err = ConstructionError
              /\ this = NoMatrix /\ other = NoMatrix
        /\ pc # "failed" => this = AsMatrix(args.a) /\ other = AsMatrix(args.b)

\* C1 witness: a shape with a zero dimension given values was refused
C1_Witness ==
    /\ pc = "failed"
    /\ args.a.shape[1] = 0
    /\ Len(args.a.values) = 2

\* C2: on plain matrices of equal shape add, sub and hadamard_product give
\* cell by cell the field sum, difference and product; scalar_mul gives
\* s * A[i] and scalar_div, for s # 0, gives A[i] / s; every result has the
\* receiver's shape, zero_point and scale and rows * cols values.
C2_Elementwise ==
    pc = "called" /\ IsPlain(this) =>
        /\ op \in {"add", "sub", "hadamard_product"} /\ IsPlain(other)
              /\ this.shape = other.shape =>
              /\ out.ok /\ out.kind = "matrix" /\ SameFrame(out.m, this)
              /\ \A i \in 1..Len(this.values) :
                    out.m.values[i] =
                        CASE op = "add" -> (this.values[i] + other.values[i]) % P
                          [] op = "sub" -> (this.values[i] - other.values[i]) % P
                          [] OTHER -> (this.values[i] * other.values[i]) % P
        /\ op = "scalar_mul" =>
              /\ out.ok /\ out.kind = "matrix" /\ SameFrame(out.m, this)
              /\ \A i \in 1..Len(this.values) :
                    out.m.values[i] = (scalar * this.values[i]) % P
        /\ op = "scalar_div" /\ scalar # 0 =>
              /\ out.ok /\ out.kind = "matrix" /\ SameFrame(out.m, this)
              /\ \A i \in 1..Len(this.values) :
                    /\ out.m.values[i] \in 0..(P - 1)
                    /\ (out.m.values[i] * scalar) % P = this.values[i]

\* C2 witness: a matrix with a cell 1 was divided by 2, which gives the
\* field element 1/2
C2_Witness ==
    /\ Called("scalar_div") /\ scalar = 2 /\ out.ok
    /\ Rows(this) = 2 /\ Cols(this) = 2
    /\ \E i \in 1..4 : this.values[i] = 1 /\ out.m.values[i] = (P + 1) \div 2

\* C3: for plain A of shape (M,N) and plain B of shape (N,Q), mul(A,B) has
\* shape (M,Q) and M*Q values, cell (i,j) is the sum over k < N of
\* A[i,k] * B[k,j], and all M*N*Q products are computed, zero entries too.
C3_Mul ==
    Called("mul") /\ IsPlain(this) /\ IsPlain(other) /\ Cols(this) = Rows(other) =>
        /\ out.ok /\ out.kind = "matrix"
        /\ out.m.shape = <<Rows(this), Cols(other)>>
        /\ Len(out.m.values) = Rows(this) * Cols(other)
        /\ \A i \in 0..(Rows(this) - 1), j \in 0..(Cols(other) - 1) :
              Cell(out.m.values, Cols(other), i, j) =
                  RefDot(this.values, other.values, Cols(this), Cols(other), i, j)
        /\ out.muls = Rows(this) * Cols(this) * Cols(other)

\* C3 witness: the product of the test suite
C3_Witness ==
    /\ Called("mul")
    /\ this.values = <<1, 2, 3, 4, 5, 6>> /\ this.shape = <<2, 3>>
    /\ other.values = <<7, 8, 9, 10, 11, 12>> /\ other.shape = <<3, 2>>
    /\ out.ok /\ out.m.values = <<58, 64, 139, 154>> /\ out.m.shape = <<2, 2>>

\* C4: transpose(A) has shape (cols, rows), out[j*rows + i] = A[i*cols + j]
\* for all i < rows, j < cols, every cell of the result is written exactly
\* once, and zero_point and scale are copied.
C4_Transpose ==
    Called("transpose") =>
        /\ out.ok /\ out.kind = "matrix"
        /\ out.m.shape = <<Cols(this), Rows(this)>>
        /\ out.m.zero_point = this.zero_point /\ out.m.scale = this.scale
        /\ Len(out.m.values) = Rows(this) * Cols(this)
        /\ \A i \in 0..(Rows(this) - 1), j \in 0..(Cols(this) - 1) :
              out.m.values[j * Rows(this) + i + 1] = this.values[i * Cols(this) + j + 1]
        /\ LET w == transpose_run(this.values, this.shape).writes
           IN  \A k \in 0..(Rows(this) * Cols(this) - 1) :
                  Cardinality({t \in 1..Len(w) : w[t] = k}) = 1

\* C4 witness: the 2 x 3 matrix of the test suite was transposed
C4_Witness ==
    /\ Called("transpose")
    /\ this.values = <<1, 2, 3, 4, 5, 6>> /\ this.shape = <<2, 3>>
    /\ out.ok /\ out.m.values = <<1, 4, 2, 5, 3, 6>> /\ out.m.shape = <<3, 2>>

\* C5: for plain A of shape (M,N) and B of shape (N,Q), transpose(mul(A,B))
\* and mul(transpose(B), transpose(A)) are both defined and are the same
\* matrix, of shape (Q,M).
C5_TransposeOfMul ==
    Called("transpose_of_mul") /\ IsPlain(this) /\ IsPlain(other)
        /\ Cols(this) = Rows(other) =>
        /\ out.ok /\ out.kind = "matrix"
        /\ out2.ok /\ out2.kind = "matrix"
        /\ out.m.shape = <<Cols(other), Rows(this)>>
        /\ out.m.shape = out2.m.shape
        /\ out.m.values = out2.m.values

\* C5 witness: the operands of the test suite, A*B = [58,64,139,154]
C5_Witness ==
    /\ Called("transpose_of_mul")
    /\ this.shape = <<2, 3>> /\ other.shape = <<3, 2>>
    /\ out.ok /\ out.m.values = <<58, 139, 64, 154>>
    /\ out2.ok /\ out2.m.values = <<58, 139, 64, 154>>

\* C6: for a plain square matrix of size n >= 1, determinant returns the
\* sole element for n = 1, a*d - b*c for n = 2, the first-row cofactor
\* expansion for n > 2, and in every case the Leibniz determinant.
C6_Determinant ==
    Called("determinant") /\ IsPlain(this) /\ IsSquare(this) /\ Rows(this) >= 1 =>
        LET n == Rows(this)
            v == this.values
        IN  /\ out.ok /\ out.kind = "field"
            /\ out.f = RefDet(v, n)
            /\ n = 1 => out.f = v[1]
            /\ n = 2 => out.f = (v[1] * v[4] - v[2] * v[3]) % P
            /\ n > 2 => out.f = RefExpansion(v, n)

\* C6 witness: a 3 x 3 matrix of the test suite, of determinant 3
C6_Witness ==
    /\ Called("determinant")
    /\ this.values = <<0, 2, 3, 4, 5, 6, 7, 8, 9>> /\ this.shape = <<3, 3>>
    /\ out.ok /\ out.f = 3

\* C7: the determinant of a plain square matrix of size n >= 2 with a row
\* of zeros or with two identical rows is 0.
C7_DegenerateRows ==
    Called("determinant") /\ IsPlain(this) /\ IsSquare(this) /\ Rows(this) >= 2
        /\ (HasZeroRow(this.values, Rows(this)) \/ HasEqualRows(this.values, Rows(this))) =>
        out.ok /\ out.kind = "field" /\ out.f = 0

\* C7 witness: a 3 x 3 matrix with two identical rows, no zero row and no
\* zero column
C7_Witness ==
    /\ Called("determinant") /\ this.shape = <<3, 3>> /\ IsPlain(this)
    /\ HasEqualRows(this.values, 3) /\ ~HasZeroRow(this.values, 3)
    /\ \A j \in 0..2 : \E i \in 0..2 : Cell(this.values, 3, i, j) # 0
    /\ out.ok /\ out.f = 0

\* C8: for a plain square matrix A of size n, adjoint(A) is the transpose of
\* the cofactor matrix, adjoint(A)[j,i] = (-1)^(i+j) * det(minor(A,i,j)),
\* with the shape and quantization of A.
C8_Adjoint ==
    Called("adjoint") /\ IsPlain(this) /\ IsSquare(this) =>
        LET n == Rows(this)
        IN  /\ out.ok /\ out.kind = "matrix" /\ SameFrame(out.m, this)
            /\ \A i \in 0..(n - 1), j \in 0..(n - 1) :
                  Cell(out.m.values, n, j, i) = RefCofactor(this.values, n, i, j)

\* C8 where it fails: the adjoint of the 1 x 1 matrix [2] came back as [0],
\* the cofactor of its only cell being the determinant of the empty matrix
C8_Witness ==
    /\ Called("adjoint") /\ IsPlain(this)
    /\ this.values = <<2>> /\ this.shape = <<1, 1>>
    /\ out.ok /\ out.m.values = <<0>>
    /\ RefCofactor(this.values, 1, 0, 0) = 1

\* C8 from size 2 on: what the code does deliver
C8_AdjointFromSize2 ==
    Rows(this) # 1 => C8_Adjoint

\* C8, the example of the test suite
C8_Example ==
    Called("adjoint") /\ this.values = <<0, 1, 2, 4, 5, 6, 7, 8, 0>>
        /\ this.shape = <<3, 3>> =>
        out.m.values = <<Field(-48), 16, Field(-4), 42, Field(-14), 8,
                         Field(-3), 7, Field(-4)>>

\* C9: for a plain square matrix A of size n >= 1 with a non-zero
\* determinant, mul(A, inverse(A)) is the n x n identity matrix.
C9_InverseRoundTrip ==
    Called("mul_inverse") /\ IsPlain(this) /\ IsSquare(this) /\ Rows(this) >= 1
        /\ RefDet(this.values, Rows(this)) # 0 =>
        /\ out.ok /\ out.kind = "matrix"
        /\ out.m.shape = this.shape
        /\ out.m.values = Identity(Rows(this))

\* C9 where it fails: the 1 x 1 matrix [2] has determinant 2, its inverse
\* came back as [0] and the product as [0]
C9_Witness ==
    /\ Called("mul_inverse") /\ IsPlain(this)
    /\ this.values = <<2>> /\ this.shape = <<1, 1>>
    /\ RefDet(this.values, 1) = 2
    /\ out2.ok /\ out2.m.values = <<0>>
    /\ out.ok /\ out.m.values = <<0>>

\* C9 from size 2 on: what the code does deliver
C9_RoundTripFromSize2 ==
    Rows(this) # 1 => C9_InverseRoundTrip

\* C10: inverse of a plain square matrix of determinant 0 ends in the
\* failure of the non-zero assertion on the determinant, returns no matrix,
\* and has divided nothing by then.
C10_SingularInverse ==
    Called("inverse") /\ IsPlain(this) /\ IsSquare(this) /\ Rows(this) >= 1
        /\ RefDet(this.values, Rows(this)) = 0 =>
        /\ ~out.ok /\ out.kind = "none" /\ out.m = NoMatrix
        /\ out.err = "assertNotEquals"
        /\ out.divs = 0

\* C10 witness: the singular 3 x 3 matrix of the determinant test
C10_Witness ==
    /\ Called("inverse")
    /\ this.values = <<1, 2, 3, 4, 5, 6, 7, 8, 9>> /\ this.shape = <<3, 3>>
    /\ ~out.ok /\ out.err = "assertNotEquals"

\* C11: scalar_div by the scalar 0 ends in the failure of the non-equality
\* assertion on the scalar before anything is divided and returns no matrix,
\* for every plain matrix, the empty one included, in the plain class and
\* in the quantized class alike.
C11_ScalarDivByZero ==
    pc = "called" /\ op \in {"scalar_div", "q_scalar_div"}
        /\ scalar = Field(0) /\ IsPlain(this) =>
        /\ ~out.ok /\ out.kind = "none" /\ out.m = NoMatrix
        /\ out.err = "assertNotEquals"

\* C11 where it fails: scalar_div of the quantized class divided the empty
\* matrix by 0 and returned a matrix
C11_Witness ==
    /\ Called("q_scalar_div") /\ scalar = Field(0) /\ IsPlain(this)
    /\ this.shape = <<0, 0>> /\ this.values = <<>>
    /\ out.ok /\ out.kind = "matrix" /\ out.m = this

\* C11 in the plain class: what matrix_ops.ts does deliver
C11_PlainScalarDivByZero ==
    op = "scalar_div" => C11_ScalarDivByZero

\* C11 in the quantized class with cells: the division itself throws
C11_QuantizedScalarDivThrows ==
    Called("q_scalar_div") /\ scalar = Field(0) /\ IsPlain(this)
        /\ this.values # <<>> =>
        ~out.ok /\ out.err = "throw"

\* C12: add, sub and hadamard_product end in an assertion failure and return
\* no matrix whenever the operands differ in rows, columns, zero_point or
\* scale, or the right operand is not neutral (zero_point 0, scale 1), in the
\* plain class and in the quantized class alike.
C12_ConfigMismatch ==
    pc = "called"
        /\ op \in {"add", "sub", "hadamard_product",
                   "q_add", "q_sub", "q_hadamard_product"}
        /\ (\/ this.shape # other.shape
            \/ this.zero_point # other.zero_point
            \/ this.scale # other.scale
            \/ ~IsPlain(other)) =>
        /\ ~out.ok /\ out.kind = "none" /\ out.m = NoMatrix
        /\ out.err \in {"assertEquals", "assertEqual"}

\* C12 where it fails: add of the quantized class accepted a 1 x 2 and a
\* 2 x 1 operand and returned their cellwise sum as a 1 x 2 matrix
C12_Witness ==
    /\ Called("q_add") /\ IsPlain(this) /\ IsPlain(other)
    /\ this.shape = <<1, 2>> /\ other.shape = <<2, 1>>
    /\ this.values = <<1, 0>> /\ other.values = <<0, 1>>
    /\ out.ok /\ out.kind = "matrix"
    /\ out.m.shape = <<1, 2>> /\ out.m.values = <<1, 1>>

\* C12 in the plain class: what matrix_ops.ts does deliver
C12_PlainConfigMismatch ==
    op \in {"add", "sub", "hadamard_product"} => C12_ConfigMismatch

\* C12 in the quantized class: the one assertion left is the one on the
\* right operand
C12_QuantizedRightNeutral ==
    pc = "called" /\ op \in {"q_add", "q_sub", "q_hadamard_product"}
        /\ ~IsPlain(other) =>
        ~out.ok /\ out.err = "assertEqual"

\* C12 in the quantized class: a receiver that is not neutral is accepted
\* with a neutral right operand
C12_QuantizedReceiverAccepted ==
    /\ Called("q_sub") /\ this.zero_point = 1 /\ this.scale = 2 /\ IsPlain(other)
    /\ this.shape = <<1, 1>> /\ other.shape = <<1, 1>>
    /\ out.ok /\ out.kind = "matrix"

\* C13: mul ends in an assertion failure, with no product computed, whenever
\* the columns of the left operand differ from the rows of the right one;
\* determinant, adjoint and inverse end in an assertion failure, with no
\* result and nothing divided, whenever the matrix is not square.
C13_ShapeChecks ==
    pc = "called" /\ IsPlain(this) =>
        /\ op = "mul" /\ IsPlain(other) /\ Cols(this) # Rows(other) =>
              /\ ~out.ok /\ out.kind = "none" /\ out.m = NoMatrix
              /\ out.err = "assertEqual"
              /\ out.muls = 0
        /\ op \in {"determinant", "adjoint", "inverse"} /\ ~IsSquare(this) =>
              /\ ~out.ok /\ out.kind = "none" /\ out.m = NoMatrix
              /\ out.err = "assertEqual"
              /\ out.muls = 0 /\ out.divs = 0

\* C13 witness: mul of a 1 x 2 by a 1 x 2 matrix failed
C13_Witness ==
    /\ Called("mul") /\ IsPlain(this) /\ IsPlain(other)
    /\ this.shape = <<1, 2>> /\ other.shape = <<1, 2>>
    /\ ~out.ok /\ out.err = "assertEqual"

\* C13 witness for the square check: determinant, adjoint and inverse of a
\* 1 x 2 matrix failed
C13_NotSquare ==
    /\ pc = "called" /\ op \in {"determinant", "adjoint", "inverse"}
    /\ IsPlain(this) /\ this.shape = <<1, 2>>
    /\ ~out.ok /\ out.err = "assertEqual"

\* C14: the operands are never changed: after any sequence of public
\* operations, plain or quantized, succeeding or failing, the receiver and
\* the other operand hold the values, shape, zero_point and scale they were
\* constructed with.
C14_OperandsUnchanged ==
    pc \in {"ready", "called"} =>
        /\ this = AsMatrix(args.a)
        /\ other = AsMatrix(args.b)

\* C14, step by step: no operation changes an operand
C14_OperandsStable ==
    [][(pc = "ready" \/ pc = "called") => (this' = this /\ other' = other)]_vars

\* C14 witness: a quantized operation has failed and a plain one has
\* succeeded on the same operands before
C14_Witness ==
    /\ Called("quant_determinant") /\ ~out.ok
    /\ this = AsMatrix(args.a) /\ this.shape = <<2, 2>> /\ this.values # <<0, 0, 0, 0>>

\* a scale whose hundredfold fits in 8 bits
AcceptedScale(s) == (s * 100) % P \in 0..255

\* x / s in the field, for s # 0
Dequantized(x, s) == (x * FInv(s)) % P

\* what C15 says of a call of quant_add
C15_Sums ==
    /\ out.ok /\ out.kind = "matrix" /\ SameFrame(out.m, this)
    /\ \A i \in 1..Len(this.values) :
          Dequantized(out.m.values[i], this.scale) =
              (Dequantized(this.values[i], this.scale)
                   + Dequantized(other.values[i], other.scale)) % P
    /\ this.values = Fill(9, 1) /\ this.scale = 1
          /\ other.values = Fill(9, 2) /\ other.scale = 2 =>
          out.m.values = Fill(9, 2)
    /\ this.scale = 1 /\ other.scale = 1 =>
          out.m.values = Matrix_add(this, other).m.values

\* C15: for matrices A, B of equal shape with zero_point 0 and scales
\* accepted by the range check, quant_add(A, B) has A's shape, zero_point and
\* scale, and result[i] / s_A = A[i] / s_A + B[i] / s_B (all 1 at scale 1
\* plus all 2 at scale 2 gives all 2); with both scales 1 the values are
\* those of plain add.
C15_QuantAdd ==
    Called("quant_add") /\ this.shape = other.shape
        /\ this.zero_point = 0 /\ other.zero_point = 0
        /\ AcceptedScale(this.scale) /\ AcceptedScale(other.scale) =>
        C15_Sums

\* C15 as amended: the same for non-zero scales accepted by the range
\* check.
C15_QuantAddNonZeroScales ==
    Called("quant_add") /\ this.shape = other.shape
        /\ this.zero_point = 0 /\ other.zero_point = 0
        /\ AcceptedScale(this.scale) /\ AcceptedScale(other.scale)
        /\ this.scale # 0 /\ other.scale # 0 =>
        C15_Sums

\* C15 witness: the quantized add test, all 1 at scale 1 plus all 2 at
\* scale 2, returned all 2 at scale 1
C15_Witness ==
    /\ Called("quant_add")
    /\ this.shape = <<3, 3>> /\ this.values = Fill(9, 1)
    /\ this.zero_point = 0 /\ this.scale = 1
    /\ other.shape = <<3, 3>> /\ other.values = Fill(9, 2)
    /\ other.zero_point = 0 /\ other.scale = 2
    /\ out.ok /\ out.m.values = Fill(9, 2) /\ out.m.scale = 1

\* C15 at scale 0, which the range check accepts: the division by the
\* scale throws
C15_ZeroScale ==
    /\ Called("quant_add") /\ this.shape = <<1, 1>> /\ other.shape = <<1, 1>>
    /\ this.zero_point = 0 /\ other.zero_point = 0
    /\ this.scale = 0 /\ other.scale = 0
    /\ ~out.ok /\ out.err = "throw"

\* the dequantized operands of a call of a scalar quantized operation
DequantizedX == Dequantized((args.x.q - args.x.z) % P, args.x.s)
DequantizedY == Dequantized((args.y.q - args.y.z) % P, args.y.s)

\* C16: with non-zero scales, mul_quant returns
\* s_out * ((q_x - z_x) / s_x) * ((q_y - z_y) / s_y) + z_out, and div_quant,
\* for q_y # z_y, returns s_out * ((q_x - z_x) / s_x) / ((q_y - z_y) / s_y)
\* + z_out, in field arithmetic.
C16_MulDivQuant ==
    pc = "scalar_called" /\ args.x.s # 0 /\ args.y.s # 0 /\ args.z.s # 0 =>
        /\ op = "mul_quant" =>
              /\ out.ok /\ out.kind = "field"
              /\ out.f = (((((args.z.s * DequantizedX) % P) * DequantizedY) % P)
                              + args.z.z) % P
        /\ op = "div_quant" /\ args.y.q # args.y.z =>
              /\ out.ok /\ out.kind = "field"
              /\ out.f = (((((args.z.s * DequantizedX) % P) * FInv(DequantizedY)) % P)
                              + args.z.z) % P

\* C16 witness: div_quant of 2 at scale 1 by 1 at scale 2, that is of 2 by
\* 1/2, requantized at scale 2 and zero point 1, returned 2 * 4 + 1
C16_Witness ==
    /\ pc = "scalar_called" /\ op = "div_quant"
    /\ args.x = [q |-> 2, z |-> 0, s |-> 1]
    /\ args.y = [q |-> 1, z |-> 0, s |-> 2]
    /\ args.z = [z |-> 1, s |-> 2]
    /\ out.ok /\ out.f = 9

\* C16 witness for mul_quant: 2 at scale 1 times 1/2, requantized at scale 2
\* and zero point 1, returned 2 * 1 + 1
C16_MulWitness ==
    /\ pc = "scalar_called" /\ op = "mul_quant"
    /\ args.x = [q |-> 2, z |-> 0, s |-> 1]
    /\ args.y = [q |-> 1, z |-> 0, s |-> 2]
    /\ args.z = [z |-> 1, s |-> 2]
    /\ out.ok /\ out.f = 3

\* C17: quant_add, quant_sub and quant_hadamard_product fail and return no
\* matrix whenever the shapes of the two operands differ, and accept operands
\* whose zero_point or scale differ.
C17_QuantShapeCheck ==
    pc = "called" /\ op \in {"quant_add", "quant_sub", "quant_hadamard_product"} =>
        /\ this.shape # other.shape =>
              ~out.ok /\ out.kind = "none" /\ out.m = NoMatrix
        /\ this.shape = other.shape
              /\ this.scale \in {1, 2} /\ other.scale \in {1, 2} =>
              out.ok /\ out.kind = "matrix" /\ SameFrame(out.m, this)

\* C17 where it fails: quant_add accepted a 1 x 2 and a 2 x 1 operand and
\* returned a 1 x 2 matrix
C17_Witness ==
    /\ Called("quant_add")
    /\ this.shape = <<1, 2>> /\ other.shape = <<2, 1>>
    /\ this.values = <<1, 0>> /\ other.values = <<0, 0>>
    /\ this.zero_point = 0 /\ other.zero_point = 0
    /\ this.scale = 1 /\ other.scale = 2
    /\ out.ok /\ out.kind = "matrix"
    /\ out.m.shape = <<1, 2>> /\ out.m.values = <<1, 0>>

\* C17, the half that holds: operands of equal shape whose zero_point or
\* scale differ are accepted
C17_DifferentQuantizationAccepted ==
    pc = "called" /\ op \in {"quant_add", "quant_sub", "quant_hadamard_product"}
        /\ this.shape = other.shape
        /\ this.scale \in {1, 2} /\ other.scale \in {1, 2} =>
        out.ok /\ out.kind = "matrix" /\ SameFrame(out.m, this)

\* C17: operands that differ in zero_point and in scale were accepted
C17_DifferentQuantization ==
    /\ Called("quant_sub") /\ this.shape = <<1, 1>> /\ other.shape = <<1, 1>>
    /\ this.zero_point = 0 /\ other.zero_point = 1
    /\ this.scale = 1 /\ other.scale = 2
    /\ out.ok

\* C17: with different shapes the call fails only when the right operand
\* has fewer values than the left one, by a read past its end
C17_FailsOnlyWhenShorter ==
    pc = "called" /\ op \in {"quant_add", "quant_sub", "quant_hadamard_product"}
        /\ this.shape # other.shape
        /\ this.scale \in {1, 2} /\ other.scale \in {1, 2} =>
        /\ out.ok = (Len(other.values) >= Len(this.values))
        /\ ~out.ok => out.err = "throw"

\* the sum over k < n of ((a[i,k] - z) / s) * ((b[k,j] - z) / s), in the field
QuantRefDot(a, b, n, p, i, j, z, s) ==
    SumSeq(Array([k \in 1..n |->
        (Dequantized((Cell(a, n, i, k - 1) - z) % P, s)
             * Dequantized((Cell(b, p, k - 1, j) - z) % P, s)) % P])) % P

\* what C18 says of a call of quant_mul
C18_Products ==
    /\ out.ok /\ out.kind = "matrix"
    /\ out.m.shape = <<Rows(this), Cols(other)>>
    /\ out.m.zero_point = this.zero_point /\ out.m.scale = this.scale
    /\ Len(out.m.values) = Rows(this) * Cols(other)
    /\ \A i \in 0..(Rows(this) - 1), j \in 0..(Cols(other) - 1) :
          Cell(out.m.values, Cols(other), i, j) =
              (this.zero_point
                   + this.scale * QuantRefDot(this.values, other.values, Cols(this),
                                              Cols(other), i, j,
                                              this.zero_point, this.scale)) % P
    /\ this.zero_point = 0 /\ this.scale = 1 =>
          out.m.values = Matrix_mul(this, other).m.values

\* C18: for A of shape (M, N) and B of shape (N, P) sharing zero_point z and
\* an accepted scale s, quant_mul(A, B) has shape (M, P) and cell (i, j) is
\* z + s * sum over k < N of ((A[i,k] - z) / s) * ((B[k,j] - z) / s); with
\* z = 0 and s = 1 the values are those of plain mul.
C18_QuantMul ==
    Called("quant_mul") /\ Cols(this) = Rows(other)
        /\ this.zero_point = other.zero_point /\ this.scale = other.scale
        /\ AcceptedScale(this.scale) =>
        C18_Products

\* C18 as amended: the same for a non-zero accepted scale.
C18_QuantMulNonZeroScale ==
    Called("quant_mul") /\ Cols(this) = Rows(other)
        /\ this.zero_point = other.zero_point /\ this.scale = other.scale
        /\ AcceptedScale(this.scale) /\ this.scale # 0 =>
        C18_Products

\* C18 witness: [2] times [0] at zero point 1 and scale 2 is
\* 1 + 2 * (1/2) * (-1/2) = 1/2
C18_Witness ==
    /\ Called("quant_mul")
    /\ this.shape = <<1, 1>> /\ other.shape = <<1, 1>>
    /\ this.values = <<2>> /\ other.values = <<0>>
    /\ this.zero_point = 1 /\ other.zero_point = 1
    /\ this.scale = 2 /\ other.scale = 2
    /\ out.ok /\ out.m.values = <<HalfScale>>

\* C18 at scale 0, which the range check accepts: the division by the
\* scale throws
C18_ZeroScale ==
    /\ Called("quant_mul") /\ this.shape = <<1, 1>> /\ other.shape = <<1, 1>>
    /\ this.zero_point = 0 /\ other.zero_point = 0
    /\ this.scale = 0 /\ other.scale = 0
    /\ ~out.ok /\ out.err = "throw"

\* C18 against plain mul: a 2 x 2 product with non-zero cells
C18_PlainProduct ==
    /\ Called("quant_mul") /\ IsPlain(this) /\ IsPlain(other)
    /\ this.shape = <<2, 2>> /\ other.shape = <<2, 2>>
    /\ out.ok /\ out.m.values # <<0, 0, 0, 0>>
    /\ out.m.values = Matrix_mul(this, other).m.values

\* C19: for every square matrix of size 1 to 3 with zero_point 0 and
\* scale 1, quant_determinant completes and returns the field element that
\* the plain determinant returns for the same values.
C19_QuantDeterminant ==
    Called("quant_determinant") /\ IsPlain(this) /\ IsSquare(this)
        /\ Rows(this) \in 1..3 =>
        /\ out.ok /\ out.kind = "field"
        /\ out.f = Matrix_determinant(this).f
        /\ out.f = RefDet(this.values, Rows(this))

\* C19 where it fails: quant_determinant of the 2 x 2 identity ended in the
\* constructor's exception, the minor of the expansion having 4 values for
\* the shape (1, 1), while the plain determinant returns 1
C19_Witness ==
    /\ Called("quant_determinant") /\ IsPlain(this)
    /\ this.shape = <<2, 2>> /\ this.values = <<1, 0, 0, 1>>
    /\ ~out.ok /\ out.err = ConstructionError
    /\ Matrix_determinant(this).f = 1

\* C19: quant_determinant of a 1 x 1 matrix ended in the exception of the
\* 2 x 2 candidate, which reads values[3]
C19_Size1 ==
    /\ Called("quant_determinant") /\ IsPlain(this)
    /\ this.shape = <<1, 1>> /\ this.values = <<2>>
    /\ ~out.ok /\ out.err = "throw"

\* C19: what the code does deliver: quant_determinant completes for no
\* matrix at all
C19_NeverCompletes ==
    Called("quant_determinant") => ~out.ok

\* the values a quantized matrix stands for, (q - z) / s cell by cell, and
\* their determinant
DequantizedValues(m) ==
    Array([i \in 1..Len(m.values) |->
        Dequantized((m.values[i] - m.zero_point) % P, m.scale)])

DequantizedDet(m) == RefDet(DequantizedValues(m), Rows(m))

\* C20: quant_inverse fails by its non-equality assertion, returning no
\* matrix, exactly for the square matrices whose dequantized determinant is
\* zero, and does not reject a matrix whose dequantized determinant is
\* non-zero.
C20_QuantInverse ==
    Called("quant_inverse") /\ IsSquare(this) /\ Rows(this) >= 1
        /\ this.scale # 0 /\ AcceptedScale(this.scale) =>
        /\ DequantizedDet(this) = 0 =>
              /\ ~out.ok /\ out.kind = "none" /\ out.m = NoMatrix
              /\ out.err = "assertNotEquals"
        /\ DequantizedDet(this) # 0 =>
              out.ok /\ out.kind = "matrix"

\* C20 where it fails: quant_inverse of the 2 x 2 identity, of determinant
\* 1, ended in the exception quant_determinant ends in
C20_Witness ==
    /\ Called("quant_inverse") /\ IsPlain(this)
    /\ this.shape = <<2, 2>> /\ this.values = <<1, 0, 0, 1>>
    /\ DequantizedDet(this) = 1
    /\ ~out.ok /\ out.err = ConstructionError
    /\ out = quant_determinant(this)

\* C20: what the code does deliver: quant_inverse fails for every matrix,
\* and never by its non-equality assertion
C20_NeverReachesAssertion ==
    Called("quant_inverse") => ~out.ok /\ out.err # "assertNotEquals"

\* C20: a singular matrix is rejected by the same exception, not by the
\* assertion
C20_SingularWitness ==
    /\ Called("quant_inverse") /\ IsPlain(this)
    /\ this.shape = <<2, 2>> /\ this.values = <<1, 1, 1, 1>>
    /\ DequantizedDet(this) = 0
    /\ ~out.ok /\ out.err = ConstructionError

\* a call of a scalar quantized operation with a zero scale
ZeroScaleCall == args.x.s = 0 \/ args.y.s = 0 \/ args.z.s = 0

\* C21: no quantized operation returns a value after dividing by zero:
\* quant_scalar_div by the scalar 0, div_quant with q_y = z_y, and mul_quant,
\* div_quant, add_quant and sub_quant called with a zero scale all end in
\* failure, by an explicit non-equality assertion on the divisor.
C21_QuantDivisionByZero ==
    /\ Called("quant_scalar_div") /\ scalar = Field(0) =>
          ~out.ok /\ out.err = "assertNotEquals"
    /\ pc = "scalar_called" /\ op = "div_quant" /\ args.y.q = args.y.z =>
          ~out.ok /\ out.err = "assertNotEquals"
    /\ pc = "scalar_called" /\ ZeroScaleCall =>
          ~out.ok /\ out.err = "assertNotEquals"

\* C21 where it fails: add_quant with the output scale 0 returned the
\* output zero point
C21_Witness ==
    /\ pc = "scalar_called" /\ op = "add_quant"
    /\ args.x = [q |-> 1, z |-> 0, s |-> 1]
    /\ args.y = [q |-> 1, z |-> 0, s |-> 1]
    /\ args.z = [z |-> 1, s |-> 0]
    /\ out.ok /\ out.kind = "field" /\ out.f = 1

\* C21: what the code does deliver: a call that divides by zero ends in the
\* exception of the division; add_quant and sub_quant never divide by the
\* output scale
C21_DivisionThrows ==
    pc = "scalar_called" =>
        /\ op = "div_quant" /\ args.y.q = args.y.z => ~out.ok /\ out.err = "throw"
        /\ op \in {"mul_quant", "div_quant"} /\ ZeroScaleCall =>
              ~out.ok /\ out.err = "throw"
        /\ op \in {"add_quant", "sub_quant"} /\ (args.x.s = 0 \/ args.y.s = 0) =>
              ~out.ok /\ out.err = "throw"
        /\ op \in {"add_quant", "sub_quant"} /\ args.z.s = 0
              /\ args.x.s \in {1, 2} /\ args.y.s \in {1, 2} =>
              out.ok /\ out.f = args.z.z

\* C21 for quant_scalar_div: by the scalar 0 it throws on a matrix with
\* cells and returns the empty matrix unchanged
C21_QuantScalarDivByZero ==
    Called("quant_scalar_div") /\ scalar = Field(0) =>
        IF this.values = <<>> THEN out.ok /\ out.m = this
        ELSE ~out.ok /\ out.err = "throw"

\* C22: every public operation on matrices of finite shape terminates, by
\* returning its result or by stopping at a failed check; transpose, and
\* adjoint and quant_adjoint which call it, finish after at most rows * cols
\* inner iterations for every shape with rows, cols >= 1.
C22_Terminates ==
    pc = "called" => (out.ok \/ out.err # "diverges")

\* C22 where it fails: transpose of the quantized class on a 1 x 2 matrix
\* is still in its inner loop after 2 iterations
C22_Witness ==
    /\ Called("q_transpose")
    /\ this.shape = <<Field(1), Field(2)>>
    /\ ~out.ok /\ out.err = "diverges"

\* C22: adjoint of the quantized class on a 2 x 2 matrix reaches transpose
\* and stays there
C22_AdjointWitness ==
    /\ Called("q_adjoint")
    /\ this.shape = <<Field(2), Field(2)>>
    /\ ~out.ok /\ out.err = "diverges"

\* C22: what the code does deliver: the operations that diverge are those
\* that enter the inner loop of transpose of the quantized class; transpose
\* of the plain class always returns
C22_OnlyTransposeDiverges ==
    /\ Called("transpose") => out.ok
    /\ pc = "called" /\ ~out.ok /\ out.err = "diverges" =>
          /\ op \in {"q_transpose", "q_adjoint", "quant_adjoint", "quant_inverse"}
          /\ Number(this.shape[1]) >= 1 /\ Number(this.shape[2]) >= 1
    /\ Called("q_transpose") /\ Number(this.shape[1]) >= 1
          /\ Number(this.shape[2]) >= 1 => ~out.ok /\ out.err = "diverges"

\* add_quant or sub_quant was called and its two range checks passed
AlignedCall ==
    /\ pc = "scalar_called" /\ op \in {"add_quant", "sub_quant"}
    /\ out2.ok

\* C23: in add_quant and sub_quant the common multiplier is
\* 2 * min(s_x, s_y) for every pair of accepted scales: 2 * s_y when
\* 100 * s_x > 100 * s_y, and 2 * s_x otherwise.
C23_CommonMultiplier ==
    AlignedCall =>
        out2.f = IF FMul(args.x.s, Field(100)) > FMul(args.y.s, Field(100))
                 THEN FMul(args.y.s, Field(2))
                 ELSE FMul(args.x.s, Field(2))

\* C23 where it fails: with s_x = 1 and s_y = 2 the multiplier is 4, not 2
C23_Witness ==
    /\ AlignedCall /\ op = "add_quant"
    /\ args.x.s = 1 /\ args.y.s = 2
    /\ out2.f = 4

\* C23: what the code does deliver: the test of the comparison's Bool
\* object always takes the first branch, and the multiplier is 2 * s_y
C23_AlwaysTwiceYScale ==
    AlignedCall => out2.f = FMul(args.y.s, Field(2))

\* C24: add_quant and sub_quant fail, with no output, whenever 100 * s_x or
\* 100 * s_y, computed in the field, is not in 0..255; they accept every pair
\* of non-zero scales for which both products fit.
C24_RangeChecks ==
    pc = "scalar_called" /\ op \in {"add_quant", "sub_quant"} =>
        /\ ~AcceptedScale(args.x.s) \/ ~AcceptedScale(args.y.s) =>
              ~out.ok /\ out.kind = "none"
        /\ AcceptedScale(args.x.s) /\ AcceptedScale(args.y.s)
              /\ args.x.s # 0 /\ args.y.s # 0 => out.ok /\ out.kind = "field"

\* C24: sub_quant stopped because 100 * s_y = 300 does not fit in 8 bits
C24_Witness ==
    /\ pc = "scalar_called" /\ op = "sub_quant"
    /\ args.x.s = 1 /\ args.y.s = 3
    /\ ~out.ok

\* C24: add_quant accepted the scales 1/2 and 2, whose products are 50 and 200
C24_AcceptedWitness ==
    /\ pc = "scalar_called" /\ op = "add_quant"
    /\ args.x.s = HalfScale /\ args.y.s = 2
    /\ out.ok

\* get_minor was called on an n x n matrix with n >= 2
MinorCall == Called("get_minor") /\ Number(this.shape[1]) >= 2

\* the first k cells of an array
Prefix(arr, k) == Array([t \in 1..k |-> arr[t]])

\* C25: for every n x n matrix (n >= 2) and every excluded (row, col) with
\* row, col < n, the constant-index get_minor and the witnessed-index
\* get_minor produce the same buffer of (n-1)^2 cells: cell r*(n-1)+c holds
\* the source cell of the r-th remaining row and c-th remaining column.
C25_SameMinor ==
    MinorCall =>
        /\ out.minor = out2.minor
        /\ out.minor = RefMinor(this.values, Number(this.shape[1]), out.row, out.col)

\* C25 where it fails: excluding row 1 and column 1 of [[1, 0], [0, 0]], the
\* witnessed-index get_minor leaves 0 in cell 0, the constant-index one 1
C25_Witness ==
    /\ MinorCall
    /\ this.values = <<1, 0, 0, 0>>
    /\ out.row = 1 /\ out.col = 1
    /\ out.minor = <<1, 0, 0, 0>>
    /\ out2.minor = <<0, 0, 0, 0>>

\* C25: what the code does deliver: the constant-index get_minor writes the
\* minor into the first (n-1)^2 cells of the caller's buffer, which keeps
\* its n*n cells; the witnessed-index one agrees with it when row 0 is
\* the excluded row
C25_ConstantIndexMinor ==
    MinorCall =>
        LET n == Number(this.shape[1])
        IN  /\ Len(out.minor) = n * n /\ Len(out2.minor) = n * n
            /\ Prefix(out.minor, (n - 1) * (n - 1)) =
                   RefMinor(this.values, n, out.row, out.col)
            /\ \A t \in ((n - 1) * (n - 1) + 1)..(n * n) : out.minor[t] = Field(0)
            /\ out.row = 0 => out2.minor = out.minor

\* C26: in the witnessed-index get_minor, with counters r and c starting at
\* -1, every write minor[r*(n-1)+c] of the double loop targets an index in
\* 0..(n-1)^2-1, for every excluded row and column, row 0 and column 0
\* included, and a write gated off by j = excluded column leaves the buffer
\* unchanged.
C26_WritesInRange ==
    MinorCall =>
        \A k \in 1..Len(out2.writes) :
            /\ out2.writes[k].idx \in
                   0..((Number(this.shape[1]) - 1) * (Number(this.shape[1]) - 1) - 1)
            /\ ~out2.writes[k].j_not_col => out2.writes[k].same

\* C26 where it fails: excluding row 1 and column 0 of a 2 x 2 matrix, the
\* first write, at i = 0 and j = 0, has c = -1 and its index is no array index
C26_Witness ==
    /\ MinorCall /\ Number(this.shape[1]) = 2
    /\ out2.row = 1 /\ out2.col = 0
    /\ Len(out2.writes) = 4
    /\ out2.writes[1].idx = -1 /\ out2.writes[1].j = 0
    /\ out2.writes[2].idx = 0

\* C26: what the code does deliver: n*n writes; an index is outside the
\* array exactly when c is still -1 (column 0 excluded, j = 0) or r is still
\* -1 (row 0 excluded, i = 0), and it is inside 0..(n-1)^2-1 otherwise; a
\* write gated off by the column test never changes the buffer
C26_StrayWrites ==
    MinorCall =>
        LET n == Number(this.shape[1])
        IN  /\ Len(out2.writes) = n * n
            /\ \A k \in 1..Len(out2.writes) :
                   LET w == out2.writes[k]
                   IN  /\ w.idx = -1 <=>
                              \/ out2.col = 0 /\ w.j = 0
                              \/ out2.row = 0 /\ w.i = 0
                       /\ w.idx # -1 => w.idx \in 0..((n - 1) * (n - 1) - 1)
                       /\ ~w.j_not_col => w.same

\* C27: for a square matrix of any size n >= 1, determinant and
\* quant_determinant of the quantized class evaluate the n = 1, n = 2 and
\* general candidates unconditionally and return the selected one;
\* evaluating the two unused candidates reads no cell outside the n*n values
\* and never makes the operation fail.
C27_UnusedCandidates ==
    (Called("q_determinant") \/ Called("quant_determinant"))
        /\ IsPlain(this) /\ IsSquare(this) /\ Rows(this) >= 1 =>
        /\ out.ok /\ out.kind = "field"
        /\ out.f = RefDet(this.values, Rows(this))

\* C27 where it fails: determinant of the quantized class on the 1 x 1
\* matrix [2] ended in the exception of the unused 2 x 2 candidate, which
\* reads matrix[3]
C27_Witness ==
    /\ Called("q_determinant") /\ IsPlain(this)
    /\ this.shape = <<1, 1>> /\ this.values = <<2>>
    /\ ~out.ok /\ out.err = "throw"

\* C27: what the code does deliver: determinant of the quantized class
\* fails for n = 1 and returns the determinant for n = 2 and n = 3;
\* determinant of the plain class, which evaluates only the branch of the
\* size, returns it for n = 1 too
C27_FromSize2 ==
    /\ Called("q_determinant") /\ IsPlain(this) /\ IsSquare(this) =>
          IF Rows(this) \in 2..MaxN
          THEN out.ok /\ out.f = RefDet(this.values, Rows(this))
          ELSE ~out.ok /\ out.err = "throw"
    /\ Called("determinant") /\ IsPlain(this) /\ IsSquare(this)
          /\ Rows(this) \in 1..MaxN =>
          out.ok /\ out.f = RefDet(this.values, Rows(this))

\* one sequence is the beginning of the other
IsPrefix(s, t) == Len(s) <= Len(t) /\ \A k \in 1..Len(s) : s[k] = t[k]

\* C28: data-obliviousness: for two runs of mul, determinant, adjoint,
\* inverse or get_minor on operands of the same shapes but different cell
\* values, the sequence of appended constraints (kind and position of each
\* witness, equality assertion and non-equality assertion) and the sequence
\* of arithmetic steps are identical.
C28_SameSteps ==
    Called("runs") => out.steps = out2.steps

\* C28, amended: the two sequences are identical when both runs return, and
\* the sequence of a run that stops at a failed assertion is the beginning
\* of the other's.
C28_SameStepsUntilFailure ==
    Called("runs") =>
        /\ out.ok /\ out2.ok => out.steps = out2.steps
        /\ ~out.ok => IsPrefix(out.steps, out2.steps)
        /\ ~out2.ok => IsPrefix(out2.steps, out.steps)

\* C28: two runs of inverse on different 3 x 3 matrices, both returned, made
\* the same steps
C28_Witness ==
    /\ Called("runs") /\ out.fn = "inverse"
    /\ this.values = <<0, 1, 2, 4, 5, 6, 7, 8, 0>>
    /\ other.values = <<0, 2, 3, 4, 5, 6, 7, 8, 9>>
    /\ out.ok /\ out2.ok
    /\ out.steps = out2.steps /\ Len(out.steps) > 9

\* C28 where it fails: inverse of a singular 3 x 3 matrix stopped at the
\* non-equality assertion, inverse of a regular one went on
C28_SingularWitness ==
    /\ Called("runs") /\ out.fn = "inverse"
    /\ this.values = <<1, 2, 3, 4, 5, 6, 7, 8, 9>>
    /\ other.values = <<0, 1, 2, 4, 5, 6, 7, 8, 0>>
    /\ ~out.ok /\ out2.ok
    /\ out.steps[Len(out.steps)] = "assertNotEquals"
    /\ Len(out.steps) < Len(out2.steps)

\* add_quant or sub_quant was called with non-zero scales that pass the
\* range checks
AcceptedCall ==
    /\ pc = "scalar_called"
    /\ AcceptedScale(args.x.s) /\ AcceptedScale(args.y.s)
    /\ args.x.s # 0 /\ args.y.s # 0

\* s_out * (x + y) + z_out and s_out * (x - y) + z_out for the dequantized
\* operands x and y of the call
RefAddQuant == (((args.z.s * ((DequantizedX + DequantizedY) % P)) % P) + args.z.z) % P
RefSubQuant ==
    (((args.z.s * ((DequantizedX + P - DequantizedY) % P)) % P) + args.z.z) % P

\* C29: the result of add_quant and sub_quant does not depend on which
\* operand's scale is chosen for the common multiplier: for all non-zero
\* accepted scales the output is
\* s_out * ((q_x - z_x) / s_x +/- (q_y - z_y) / s_y) + z_out in the field,
\* whether the multiplier is 2 * s_x or 2 * s_y.
C29_MultiplierChoice ==
    /\ AcceptedCall /\ op = "add_quant" =>
          /\ out.ok /\ out.f = RefAddQuant
          /\ \A m \in {FMul(args.x.s, Field(2)), FMul(args.y.s, Field(2))} :
                add_quant_aligned(m, args.x.q, args.x.z, args.x.s, args.y.q,
                                  args.y.z, args.y.s, args.z.z, args.z.s) = out.f
    /\ AcceptedCall /\ op = "sub_quant" =>
          /\ out.ok /\ out.f = RefSubQuant
          /\ \A m \in {FMul(args.x.s, Field(2)), FMul(args.y.s, Field(2))} :
                sub_quant_aligned(m, args.x.q, args.x.z, args.x.s, args.y.q,
                                  args.y.z, args.y.s, args.z.z, args.z.s) = out.f

\* C29 witness: sub_quant of 2 at scale 1/2 and 1 at scale 2, requantized at
\* scale 2 and zero point 1: 2 * (4 - 1/2) + 1 = 8, with the multiplier 4
C29_Witness ==
    /\ AcceptedCall /\ op = "sub_quant"
    /\ args.x = [q |-> 2, z |-> 0, s |-> HalfScale]
    /\ args.y = [q |-> 1, z |-> 0, s |-> 2]
    /\ args.z = [z |-> 1, s |-> 2]
    /\ out.ok /\ out.f = 8 /\ out2.f = 4

\* the plain operations other than transpose, and those with two operands
PlainOps ==
    {"add", "sub", "hadamard_product", "mul", "scalar_mul", "scalar_div",
     "determinant", "adjoint", "inverse"}
PlainBinaryOps == {"add", "sub", "hadamard_product", "mul"}

\* C30: every plain operation except transpose (add, sub, hadamard_product,
\* mul, scalar_mul, scalar_div, determinant, adjoint, inverse) fails unless
\* the receiver has zero_point 0 and scale 1, so a plain binary operation
\* succeeds only when both operands are neutral; transpose accepts any
\* zero_point and scale.
C30_ReceiverNeutral ==
    /\ pc = "called" /\ op \in PlainOps /\ ~IsPlain(this) => ~out.ok
    /\ pc = "called" /\ op \in PlainBinaryOps /\ out.ok =>
          IsPlain(this) /\ IsPlain(other)
    /\ Called("transpose") =>
          /\ out.ok /\ out.kind = "matrix"
          /\ out.m.zero_point = this.zero_point /\ out.m.scale = this.scale

\* C30 witness: scalar_mul on a receiver with zero_point 1 and scale 2
\* stopped at its assertion
C30_Witness ==
    /\ Called("scalar_mul")
    /\ this.zero_point = 1 /\ this.scale = 2 /\ this.values # <<>>
    /\ ~out.ok /\ out.err = "assertEqual"

\* C30 witness: transpose of a receiver with zero_point 1 and scale 2
\* returned a matrix with the same quantization
C30_TransposeWitness ==
    /\ Called("transpose")
    /\ this.zero_point = 1 /\ this.scale = 2 /\ this.values # <<>>
    /\ out.ok /\ out.m.zero_point = 1 /\ out.m.scale = 2

\* C30 witness: mul with a non-neutral receiver and a neutral right operand
\* stopped at the assertion that the two quantizations are equal
C30_MulWitness ==
    /\ Called("mul")
    /\ ~IsPlain(this) /\ IsPlain(other) /\ this.shape = <<1, 1>>
    /\ ~out.ok /\ out.err = "assertEqual"

====
